---------------------------- MODULE Spec2Model ----------------------------
(***************************************************************************)
(* A model of the g1 tool chain: the assembler (g1/assembler/assembler.py),*)
(* the data loader (g1/assembler/data.py), the binary codec                *)
(* (g1/binary/binary_format.py) and the virtual machine                    *)
(* (g1/virtual_machine/g1.py).                                             *)
(*                                                                         *)
(* Python values are modelled as follows.  A str is a sequence of atoms:   *)
(* single characters, and identifier words the code never looks inside.    *)
(* A dict is a function on its keys, so that `k in d` is k \in DOMAIN d.   *)
(* A list is a sequence; the cell memory[i] of the 0-indexed Python list   *)
(* is memory[i+1].  An instruction argument, which is an int or a str in   *)
(* Python, is a record tagged with isinstance(arg, int).                   *)
(***************************************************************************)
EXTENDS Integers, Sequences, FiniteSets, TLC

VARIABLES
    \* virtual machine (ProgramContext and the position of its caller)
    program_data, memory, program_counter, color, vm_state, runtime_error,
    disable_log, log_sink, steps,
    \* history of the current run: the index and the memory it was entered
    \* with, and the program counters of the instructions executed so far
    run_index, entry_memory, executed,
    \* assembler (assemble_tokens)
    tokens, tok_pos, compiler_state, labels, raw_instructions,
    instruction_index, output_json, asm_instructions, asm_state, asm_error,
    asm_warnings,
    \* binary codec
    codec_in, formatted_json, file_content, codec_out, codec_state,
    \* data loader (parse_data)
    data_entries, memory_size, line_number, parsed_data, data_state,
    data_error, data_warnings,
    \* assembler process (main)
    argv, main_state, exit_code, flags, out_file,
    \* driver of the virtual machine (run)
    run_state, running, delta_ms, frames, run_log

vmVars == <<program_data, memory, program_counter, color, vm_state,
            runtime_error, disable_log, log_sink, steps,
            run_index, entry_memory, executed>>
asmVars == <<tokens, tok_pos, compiler_state, labels, raw_instructions,
             instruction_index, output_json, asm_instructions, asm_state,
             asm_error, asm_warnings>>
codecVars == <<codec_in, formatted_json, file_content, codec_out, codec_state>>
dataVars == <<data_entries, memory_size, line_number, parsed_data, data_state,
              data_error, data_warnings>>
mainVars == <<argv, main_state, exit_code, flags, out_file>>
runVars == <<run_state, running, delta_ms, frames, run_log>>
vars == <<vmVars, asmVars, codecVars, dataVars, mainVars, runVars>>

-----------------------------------------------------------------------------
(* Bounds of the model *)

\* longest instruction list of a program the virtual machine is given
MaxProgLen == 2
\* fetch-execute cycles followed in one behaviour of the virtual machine
MaxSteps == 3

-----------------------------------------------------------------------------
(* Python built-ins *)

None == "None"

DigitChars == <<"0", "1", "2", "3", "4", "5", "6", "7", "8", "9">>

IsDigit(c) == \E i \in 1..10 : DigitChars[i] = c

DigitVal(c) == (CHOOSE i \in 1..10 : DigitChars[i] = c) - 1

RECURSIVE DigitsVal(_)
DigitsVal(s) ==
    IF s = <<>> THEN 0
    ELSE 10 * DigitsVal(SubSeq(s, 1, Len(s) - 1)) + DigitVal(s[Len(s)])

AllDigits(s) == s # <<>> /\ \A i \in 1..Len(s) : IsDigit(s[i])

\* int(s): ok is FALSE where Python raises ValueError
PyInt(s) ==
    IF AllDigits(s) THEN [ok |-> TRUE, val |-> DigitsVal(s)]
    ELSE IF s # <<>> /\ s[1] = "-" /\ AllDigits(Tail(s))
         THEN [ok |-> TRUE, val |-> 0 - DigitsVal(Tail(s))]
    ELSE [ok |-> FALSE, val |-> 0]

RECURSIVE NatStr(_)
NatStr(n) ==
    IF n < 10 THEN <<DigitChars[n + 1]>>
    ELSE Append(NatStr(n \div 10), DigitChars[(n % 10) + 1])

\* str(n)
PyStr(n) == IF n < 0 THEN <<"-">> \o NatStr(0 - n) ELSE NatStr(n)

\* x // y and x % y of Python ints (y # 0): the quotient is rounded down
PyFloorDiv(x, y) ==
    IF y > 0 THEN x \div y ELSE (0 - x) \div (0 - y)

PyMod(x, y) == x - y * PyFloorDiv(x, y)

\* the concatenation of a list of lists
RECURSIVE Flatten(_)
Flatten(ls) == IF ls = <<>> THEN <<>> ELSE ls[1] \o Flatten(Tail(ls))

\* the lists over S of length at most n
SeqsUpTo(S, n) == UNION {[1..k -> S] : k \in 0..n}

\* a dict without the key k (del d[k])
Del(d, k) == [x \in DOMAIN d \ {k} |-> d[x]]

\* the dicts with at most the key k, and a value of vals under it
OptionalKey(k, vals) == { << >> } \cup { k :> v : v \in vals }

\* an instruction argument: isinstance(arg, int) or a str
IntArg(n) == [isint |-> TRUE, val |-> n, text |-> <<>>]
StrArg(s) == [isint |-> FALSE, val |-> 0, text |-> s]

\* an instruction: the list [name, args]
Ins(name, args) == [name |-> name, args |-> args]

\* the text of the address $n as the assembler's lexer produces it
Addr(n) == StrArg(<<"$">> \o NatStr(n))

-----------------------------------------------------------------------------
(* g1/instructions/instructions.py *)

INSTRUCTIONS == <<"mov", "movp", "add", "sub", "mul", "div", "mod", "less",
                  "equal", "not", "jmp", "color", "point", "line", "rect", "log">>

ARGUMENT_COUNTS == <<2, 2, 3, 3, 3, 3, 3, 3, 3, 2, 2, 3, 2, 4, 4, 1>>

InstructionNames == {INSTRUCTIONS[i] : i \in 1..Len(INSTRUCTIONS)}

ARGUMENT_COUNT_LOOKUP ==
    [n \in InstructionNames |->
        ARGUMENT_COUNTS[CHOOSE i \in 1..Len(INSTRUCTIONS) : INSTRUCTIONS[i] = n]]

-----------------------------------------------------------------------------
(* g1/virtual_machine/g1.py *)

\* A handler's outcome.  st is "ok", "exit" (error() printed msg and called
\* sys.exit) or the name of the Python exception that escaped.  The handler
\* returns None (ret_none) or the int ret.
Outcome(st, msg, mem, col, retNone, ret, out) ==
    [st |-> st, msg |-> msg, memory |-> mem, color |-> col,
     ret_none |-> retNone, ret |-> ret, out |-> out]

Ok(mem, col) == Outcome("ok", "", mem, col, TRUE, 0, <<>>)
Exit(msg, mem, col) == Outcome("exit", msg, mem, col, TRUE, 0, <<>>)
Raise(exc, mem, col) == Outcome(exc, "", mem, col, TRUE, 0, <<>>)

InBounds(mem, index) == ~(index < 0 \/ index >= Len(mem))

memget(mem, index) ==
    IF ~InBounds(mem, index)
    THEN [st |-> "exit", msg |-> "Cannot get", val |-> 0]
    ELSE [st |-> "ok", msg |-> "", val |-> mem[index + 1]]

memset(mem, col, index, value) ==
    IF ~InBounds(mem, index)
    THEN Exit("Cannot set", mem, col)
    ELSE Ok([mem EXCEPT ![index + 1] = value], col)

\* mutant of parse_argument: an Address is used as the index it names, without
\* reading the cell
parse_argument_no_deref(mem, arg) ==
    IF arg.isint THEN [st |-> "ok", msg |-> "", val |-> arg.val]
    ELSE IF arg.text = <<>> \/ ~PyInt(Tail(arg.text)).ok
         THEN [st |-> "ValueError", msg |-> "", val |-> 0]
    ELSE [st |-> "ok", msg |-> "", val |-> PyInt(Tail(arg.text)).val]

\* one element of the list comprehension of parse_arguments
parse_argument(mem, arg) ==
    IF arg.isint THEN [st |-> "ok", msg |-> "", val |-> arg.val]
    ELSE IF arg.text = <<>> \/ ~PyInt(Tail(arg.text)).ok
         THEN [st |-> "ValueError", msg |-> "", val |-> 0]
    ELSE memget(mem, PyInt(Tail(arg.text)).val)

\* the arguments are decoded left to right; the first failure ends the decoding
parse_arguments(mem, args) ==
    LET rs == [i \in 1..Len(args) |-> parse_argument(mem, args[i])]
        bad == {i \in 1..Len(args) : rs[i].st # "ok"}
    IN IF bad = {}
       THEN [st |-> "ok", msg |-> "", vals |-> [i \in 1..Len(args) |-> rs[i].val]]
       ELSE LET i == CHOOSE k \in bad : \A j \in bad : k <= j
            IN [st |-> rs[i].st, msg |-> rs[i].msg, vals |-> <<>>]

ins_mov(mem, col, a) == memset(mem, col, a[1], a[2])

ins_movp(mem, col, a) ==
    LET g == memget(mem, a[2])
    IN IF g.st # "ok" THEN Exit(g.msg, mem, col)
       ELSE memset(mem, col, a[1], g.val)

\* Python ints are unbounded.  The model carries the values of the int32
\* range, and these say when the exact result of an operation on two such
\* values lies outside it.
INT32_MAX == 2147483647
INT32_MIN == (0 - INT32_MAX) - 1

AddLeavesInt32(x, y) ==
    \/ y > 0 /\ x > INT32_MAX - y
    \/ y < 0 /\ x < INT32_MIN - y

SubLeavesInt32(x, y) ==
    \/ y < 0 /\ x > INT32_MAX + y
    \/ y > 0 /\ x < INT32_MIN + y

MulLeavesInt32(x, y) ==
    \/ x > 0 /\ y > 0 /\ x > INT32_MAX \div y
    \/ x > 0 /\ y < 0 /\ y < (INT32_MIN + x - 1) \div x
    \/ x < 0 /\ y > 0 /\ x < (INT32_MIN + y - 1) \div y
    \/ x < 0 /\ y < 0 /\ (x = INT32_MIN \/ y = INT32_MIN
                             \/ (0 - x) > INT32_MAX \div (0 - y))

DivLeavesInt32(x, y) == x = INT32_MIN /\ y = 0 - 1

\* memset of a value outside the int32 range: the cell is written as by
\* memset, with a value the model does not carry; the behaviour is followed
\* no further (st is "beyond_int32", ret is the index of the cell)
memset_beyond(mem, col, index) ==
    IF ~InBounds(mem, index)
    THEN Exit("Cannot set", mem, col)
    ELSE Outcome("beyond_int32", "", mem, col, TRUE, index, <<>>)

ins_add(mem, col, a) ==
    IF AddLeavesInt32(a[2], a[3]) THEN memset_beyond(mem, col, a[1])
    ELSE memset(mem, col, a[1], a[2] + a[3])

ins_sub(mem, col, a) ==
    IF SubLeavesInt32(a[2], a[3]) THEN memset_beyond(mem, col, a[1])
    ELSE memset(mem, col, a[1], a[2] - a[3])

ins_mul(mem, col, a) ==
    IF MulLeavesInt32(a[2], a[3]) THEN memset_beyond(mem, col, a[1])
    ELSE memset(mem, col, a[1], a[2] * a[3])

\* mutant of ins_div: a zero divisor stores 0 instead of ending the run
ins_div_zero_result(mem, col, a) ==
    IF a[3] = 0 THEN memset(mem, col, a[1], 0)
    ELSE memset(mem, col, a[1], PyFloorDiv(a[2], a[3]))

ins_div(mem, col, a) ==
    IF a[3] = 0 THEN Exit("Division by zero.", mem, col)
    ELSE IF DivLeavesInt32(a[2], a[3]) THEN memset_beyond(mem, col, a[1])
    ELSE memset(mem, col, a[1], PyFloorDiv(a[2], a[3]))

\* mutant of ins_mod: the remainder of the division that truncates toward
\* zero, which has the sign of the dividend
ins_mod_truncated(mem, col, a) ==
    IF a[3] = 0 THEN Exit("Division by zero.", mem, col)
    ELSE LET ax == IF a[2] < 0 THEN 0 - a[2] ELSE a[2]
             ay == IF a[3] < 0 THEN 0 - a[3] ELSE a[3]
             r == ax % ay
         IN memset(mem, col, a[1], IF a[2] < 0 THEN 0 - r ELSE r)

ins_mod(mem, col, a) ==
    IF a[3] = 0 THEN Exit("Division by zero.", mem, col)
    ELSE memset(mem, col, a[1], PyMod(a[2], a[3]))

ins_less(mem, col, a) == memset(mem, col, a[1], IF a[2] < a[3] THEN 1 ELSE 0)

ins_equal(mem, col, a) == memset(mem, col, a[1], IF a[2] = a[3] THEN 1 ELSE 0)

ins_not(mem, col, a) == memset(mem, col, a[1], IF a[2] = 0 THEN 1 ELSE 0)

\* mutant of ins_jmp: a target of 0 is taken for "no jump"
ins_jmp_falsy_target(mem, col, a) ==
    IF a[2] # 0 /\ a[1] # 0 THEN Outcome("ok", "", mem, col, FALSE, a[1], <<>>)
    ELSE Ok(mem, col)

\* mutant of ins_jmp: the target is returned whatever the condition
ins_jmp_unconditional(mem, col, a) ==
    Outcome("ok", "", mem, col, FALSE, a[1], <<>>)

ins_jmp(mem, col, a) ==
    IF a[2] # 0 THEN Outcome("ok", "", mem, col, FALSE, a[1], <<>>)
    ELSE Ok(mem, col)

ins_color(mem, col, a) == Ok(mem, <<a[1], a[2], a[3]>>)

\* point, line and rect draw on the pygame surface, which is not modelled
ins_point(mem, col, a) == Ok(mem, col)

ins_line(mem, col, a) == Ok(mem, col)

ins_rect(mem, col, a) == Ok(mem, col)

ins_log(mem, col, a) == Outcome("ok", "", mem, col, TRUE, 0, <<a[1]>>)

INSTRUCTION_FUNCTIONS ==
    <<"ins_mov", "ins_movp",
      "ins_add", "ins_sub", "ins_mul", "ins_div", "ins_mod",
      "ins_less", "ins_equal", "ins_not",
      "ins_jmp",
      "ins_color", "ins_point", "ins_line", "ins_rect",
      "ins_log">>

\* {ins: func for ins, func in zip(INSTRUCTIONS, INSTRUCTION_FUNCTIONS)}
INSTRUCTION_LOOKUP ==
    LET n == IF Len(INSTRUCTIONS) < Len(INSTRUCTION_FUNCTIONS)
             THEN Len(INSTRUCTIONS) ELSE Len(INSTRUCTION_FUNCTIONS)
    IN [ins \in {INSTRUCTIONS[i] : i \in 1..n} |->
           INSTRUCTION_FUNCTIONS[CHOOSE i \in 1..n : INSTRUCTIONS[i] = ins]]

\* the number of arguments a handler reads: one more than the largest index
\* it applies to args
OperandsRead(func) ==
    CASE func \in {"ins_log"} -> 1
      [] func \in {"ins_mov", "ins_movp", "ins_not", "ins_jmp", "ins_point"} -> 2
      [] func \in {"ins_add", "ins_sub", "ins_mul", "ins_div", "ins_mod",
                   "ins_less", "ins_equal", "ins_color"} -> 3
      [] func \in {"ins_line", "ins_rect"} -> 4

\* INSTRUCTION_LOOKUP[instruction_name](program_context, parsed_arguments)
Dispatch(name, mem, col, a) ==
    IF name \notin DOMAIN INSTRUCTION_LOOKUP THEN Raise("KeyError", mem, col)
    ELSE LET func == INSTRUCTION_LOOKUP[name]
         IN IF Len(a) < OperandsRead(func) THEN Raise("IndexError", mem, col)
            ELSE CASE func = "ins_mov" -> ins_mov(mem, col, a)
                   [] func = "ins_movp" -> ins_movp(mem, col, a)
                   [] func = "ins_add" -> ins_add(mem, col, a)
                   [] func = "ins_sub" -> ins_sub(mem, col, a)
                   [] func = "ins_mul" -> ins_mul(mem, col, a)
                   [] func = "ins_div" -> ins_div(mem, col, a)
                   [] func = "ins_mod" -> ins_mod(mem, col, a)
                   [] func = "ins_less" -> ins_less(mem, col, a)
                   [] func = "ins_equal" -> ins_equal(mem, col, a)
                   [] func = "ins_not" -> ins_not(mem, col, a)
                   [] func = "ins_jmp" -> ins_jmp(mem, col, a)
                   [] func = "ins_color" -> ins_color(mem, col, a)
                   [] func = "ins_point" -> ins_point(mem, col, a)
                   [] func = "ins_line" -> ins_line(mem, col, a)
                   [] func = "ins_rect" -> ins_rect(mem, col, a)
                   [] func = "ins_log" -> ins_log(mem, col, a)

\* instructions[program_counter]: a negative index counts from the end of the
\* list, and an index below -len raises IndexError
Fetchable(instructions, pc) == pc >= 0 - Len(instructions)

Fetch(instructions, pc) ==
    IF pc >= 0 THEN instructions[pc + 1] ELSE instructions[Len(instructions) + pc + 1]

\* One iteration of the while loop of start_program_thread (step mode off).
\* The result is the outcome of the iteration and the next program counter.
Cycle(instructions, mem, col, pc, nolog) ==
    IF ~Fetchable(instructions, pc)
    THEN [o |-> Raise("IndexError", mem, col), pc |-> pc]
    ELSE LET ins == Fetch(instructions, pc)
         IN IF nolog /\ ins.name = "log"
            THEN [o |-> Ok(mem, col), pc |-> pc + 1]
            ELSE LET p == parse_arguments(mem, ins.args)
                 IN IF p.st # "ok"
                    THEN [o |-> Outcome(p.st, p.msg, mem, col, TRUE, 0, <<>>), pc |-> pc]
                    ELSE LET o == Dispatch(ins.name, mem, col, p.vals)
                         IN [o |-> o,
                             pc |-> IF o.st # "ok" THEN pc
                                    ELSE IF ~o.ret_none THEN o.ret
                                    ELSE pc + 1]

\* mutant of LoadData: an entry is written as far as the memory goes, without
\* the check of its upper bound
RECURSIVE LoadData_unchecked(_, _, _)
LoadData_unchecked(mem, data, amount_memory) ==
    IF data = <<>> THEN [ok |-> TRUE, memory |-> mem]
    ELSE LET address == data[1][1]
             data_numbers == data[1][2]
             upper_bound == address + Len(data_numbers)
         IN LoadData_unchecked(
                [i \in 1..Len(mem) |->
                    IF i > address /\ i <= upper_bound
                    THEN data_numbers[i - address] ELSE mem[i]],
                Tail(data), amount_memory)

\* ProgramContext.__init__: the memory after loading the data entries, or the
\* G1PyException of the first entry that does not fit
RECURSIVE LoadData(_, _, _)
LoadData(mem, data, amount_memory) ==
    IF data = <<>> THEN [ok |-> TRUE, memory |-> mem]
    ELSE LET address == data[1][1]
             data_numbers == data[1][2]
             upper_bound == address + Len(data_numbers)
         IN IF upper_bound > amount_memory THEN [ok |-> FALSE, memory |-> mem]
            ELSE LoadData(
                   [i \in 1..Len(mem) |->
                       IF i > address /\ i <= upper_bound
                       THEN data_numbers[i - address] ELSE mem[i]],
                   Tail(data), amount_memory)

ProgramContext(pd) ==
    LoadData([i \in 1..pd["meta"]["memory"] |-> 0],
             IF "data" \in DOMAIN pd THEN pd["data"] ELSE <<>>,
             pd["meta"]["memory"])

\* the 13 values update_reserved_memory writes; keys is the state of the
\* eight keys, in the order of the code
ReservedValues(meta, keys, delta) ==
    keys \o <<meta["memory"], meta["width"], meta["height"], meta["tickrate"],
              delta>>

\* mutant of SliceAssignFront: the cells after the values are cleared
SliceAssignFront_clears_rest(mem, values) ==
    values \o [i \in 1..(Len(mem) - Len(values)) |-> 0]

\* memory[0:len(values)] = values
SliceAssignFront(mem, values) ==
    values \o SubSeq(mem, Len(values) + 1, Len(mem))

-----------------------------------------------------------------------------
(* g1/assembler/assembler.py *)

\* A token of the lexer: its rule name and its text.  The lexer is lazy: the
\* pseudo-token LexingError stands for the place where it meets a lexeme no
\* rule matches, and next() raises there.
Tok(name, value) == [name |-> name, value |-> value]

NEWLINE == Tok("NEWLINE", <<"\n">>)

META_VARIABLES == [memory |-> 128, width |-> 100, height |-> 100, tickrate |-> 60]

ASSIGNMENT_INSTRUCTIONS ==
    {"mov", "movp", "add", "sub", "mul", "div", "mod", "less", "equal", "not"}

\* tokens.next() at position pos: the token, or the exception raised
TokensNext(toks, pos) ==
    IF pos > Len(toks) THEN [st |-> "StopIteration", token |-> NEWLINE]
    ELSE IF toks[pos].name = "LexingError" THEN [st |-> "LexingError", token |-> toks[pos]]
    ELSE [st |-> "ok", token |-> toks[pos]]

\* mutant of get_until_newline: a COMMENT is returned like any other token
RECURSIVE get_until_newline_keeps_comments(_, _, _)
get_until_newline_keeps_comments(toks, pos, returned_tokens) ==
    LET n == TokensNext(toks, pos)
    IN IF n.st # "ok" THEN [st |-> n.st, args |-> returned_tokens, pos |-> pos]
       ELSE IF n.token.name = "NEWLINE"
            THEN [st |-> "ok", args |-> returned_tokens, pos |-> pos + 1]
       ELSE get_until_newline_keeps_comments(toks, pos + 1,
                                             Append(returned_tokens, n.token))

\* get_until_newline, reading from position pos: the tokens collected and the
\* position after the NEWLINE, or the exception next() raised
RECURSIVE get_until_newline(_, _, _)
get_until_newline(toks, pos, returned_tokens) ==
    LET n == TokensNext(toks, pos)
    IN IF n.st # "ok" THEN [st |-> n.st, args |-> returned_tokens, pos |-> pos]
       ELSE IF n.token.name = "COMMENT"
            THEN get_until_newline(toks, pos + 1, returned_tokens)
       ELSE IF n.token.name = "NEWLINE"
            THEN [st |-> "ok", args |-> returned_tokens, pos |-> pos + 1]
       ELSE get_until_newline(toks, pos + 1, Append(returned_tokens, n.token))

\* mutant of parse_argument_token: a NAME that is no label becomes the literal 0
parse_argument_token_default(token, labs) ==
    IF token.name = "NUMBER"
    THEN [st |-> IF PyInt(token.value).ok THEN "ok" ELSE "ValueError",
          arg |-> IntArg(PyInt(token.value).val)]
    ELSE IF token.name = "NAME"
    THEN IF token.value \notin DOMAIN labs
         THEN [st |-> "ok", arg |-> IntArg(0)]
         ELSE [st |-> "ok", arg |-> IntArg(labs[token.value])]
    ELSE [st |-> "ok", arg |-> StrArg(token.value)]

\* parse_argument_token: the argument, or the error() of a NAME that is no label
parse_argument_token(token, labs) ==
    IF token.name = "NUMBER"
    THEN [st |-> IF PyInt(token.value).ok THEN "ok" ELSE "ValueError",
          arg |-> IntArg(PyInt(token.value).val)]
    ELSE IF token.name = "NAME"
    THEN IF token.value \notin DOMAIN labs
         THEN [st |-> "exit", arg |-> IntArg(0)]
         ELSE [st |-> "ok", arg |-> IntArg(labs[token.value])]
    ELSE [st |-> "ok", arg |-> StrArg(token.value)]

\* the list comprehension over the argument tokens of one raw instruction
parse_argument_tokens(toks, labs) ==
    LET rs == [i \in 1..Len(toks) |-> parse_argument_token(toks[i], labs)]
        bad == {i \in 1..Len(toks) : rs[i].st # "ok"}
    IN IF bad = {}
       THEN [st |-> "ok", args |-> [i \in 1..Len(toks) |-> rs[i].arg]]
       ELSE [st |-> rs[CHOOSE k \in bad : \A j \in bad : k <= j].st, args |-> <<>>]

\* error(): the message is printed and sys.exit() ends the process
AsmError(message) ==
    /\ asm_state' = "exit"
    /\ asm_error' = message

\* an exception other than LexingError leaves assemble_tokens and assemble
AsmRaise(exc) ==
    /\ asm_state' = exc
    /\ asm_error' = ""

\* assemble catches the lexer's LexingError and calls error()
AsmNextFailed(st) ==
    IF st = "LexingError" THEN AsmError("Unrecognized token.") ELSE AsmRaise(st)

Collecting == asm_state = "collect" /\ tok_pos <= Len(tokens)

\* the for loop meets the place the lexer fails at
AsmLexingError ==
    /\ Collecting
    /\ tokens[tok_pos].name = "LexingError"
    /\ AsmError("Unrecognized token.")
    /\ UNCHANGED <<tokens, tok_pos, compiler_state, labels, raw_instructions,
                   instruction_index, output_json, asm_instructions, asm_warnings>>

AsmMetaVariable ==
    /\ Collecting
    /\ tokens[tok_pos].name = "META_VARIABLE"
    /\ LET token == tokens[tok_pos]
           meta_variable_name == Tail(token.value)
           n == TokensNext(tokens, tok_pos + 1)
       IN IF compiler_state # "META"
          THEN /\ AsmError("Found meta variable outside file header.")
               /\ UNCHANGED <<tok_pos, output_json>>
          ELSE IF ~(\E k \in DOMAIN META_VARIABLES : meta_variable_name = <<k>>)
          THEN /\ AsmError("Unrecognized meta variable.")
               /\ UNCHANGED <<tok_pos, output_json>>
          ELSE IF n.st # "ok"
          THEN /\ AsmNextFailed(n.st)
               /\ UNCHANGED <<tok_pos, output_json>>
          ELSE IF ~PyInt(n.token.value).ok
          THEN /\ AsmRaise("ValueError")
               /\ tok_pos' = tok_pos + 2
               /\ UNCHANGED output_json
          ELSE /\ output_json' =
                    [output_json EXCEPT !["meta"][meta_variable_name[1]] =
                                             PyInt(n.token.value).val]
               /\ tok_pos' = tok_pos + 2
               /\ UNCHANGED <<asm_state, asm_error>>
    /\ UNCHANGED <<tokens, compiler_state, labels, raw_instructions,
                   instruction_index, asm_instructions, asm_warnings>>

\* mutant of AsmLabelName: a later declaration replaces the index of the label
AsmLabelName_last_wins ==
    /\ Collecting
    /\ tokens[tok_pos].name = "LABEL_NAME"
    /\ LET token == tokens[tok_pos]
           label_name == SubSeq(token.value, 1, Len(token.value) - 1)
       IN /\ compiler_state' = "PROCEDURES"
          /\ labels' = (label_name :> instruction_index) @@ labels
          /\ asm_warnings' =
                IF label_name \in DOMAIN labels
                THEN Append(asm_warnings,
                        [message |-> "Label declared more than once.",
                         token |-> token])
                ELSE asm_warnings
    /\ tok_pos' = tok_pos + 1
    /\ UNCHANGED <<tokens, raw_instructions, instruction_index, output_json,
                   asm_instructions, asm_state, asm_error>>

AsmLabelName ==
    /\ Collecting
    /\ tokens[tok_pos].name = "LABEL_NAME"
    /\ LET token == tokens[tok_pos]
           label_name == SubSeq(token.value, 1, Len(token.value) - 1)
       IN /\ compiler_state' = "PROCEDURES"
          /\ IF label_name \in DOMAIN labels
             THEN /\ asm_warnings' = Append(asm_warnings,
                                       [message |-> "Label declared more than once.",
                                        token |-> token])
                  /\ UNCHANGED labels
             ELSE /\ labels' = (label_name :> instruction_index) @@ labels
                  /\ UNCHANGED asm_warnings
    /\ tok_pos' = tok_pos + 1
    /\ UNCHANGED <<tokens, raw_instructions, instruction_index, output_json,
                   asm_instructions, asm_state, asm_error>>

AsmName ==
    /\ Collecting
    /\ tokens[tok_pos].name = "NAME"
    /\ LET token == tokens[tok_pos]
           got == get_until_newline(tokens, tok_pos + 1, <<>>)
       IN IF ~(\E n \in InstructionNames : token.value = <<n>>)
          THEN /\ AsmError("Unrecognized instruction.")
               /\ UNCHANGED <<tok_pos, raw_instructions, instruction_index>>
          ELSE IF got.st # "ok"
          THEN /\ AsmNextFailed(got.st)
               /\ tok_pos' = got.pos
               /\ UNCHANGED <<raw_instructions, instruction_index>>
          ELSE IF Len(got.args) # ARGUMENT_COUNT_LOOKUP[token.value[1]]
          THEN /\ AsmError("Expected other argument count.")
               /\ tok_pos' = got.pos
               /\ UNCHANGED <<raw_instructions, instruction_index>>
          ELSE /\ raw_instructions' = Append(raw_instructions, <<token, got.args>>)
               /\ instruction_index' = instruction_index + 1
               /\ tok_pos' = got.pos
               /\ UNCHANGED <<asm_state, asm_error>>
    /\ UNCHANGED <<tokens, compiler_state, labels, output_json, asm_instructions,
                   asm_warnings>>

AsmValue ==
    /\ Collecting
    /\ tokens[tok_pos].name \in {"NUMBER", "ADDRESS"}
    /\ AsmError("Value outside of instruction.")
    /\ UNCHANGED <<tokens, tok_pos, compiler_state, labels, raw_instructions,
                   instruction_index, output_json, asm_instructions, asm_warnings>>

AsmSkip ==
    /\ Collecting
    /\ tokens[tok_pos].name \in {"COMMENT", "NEWLINE"}
    /\ tok_pos' = tok_pos + 1
    /\ UNCHANGED <<tokens, compiler_state, labels, raw_instructions,
                   instruction_index, output_json, asm_instructions, asm_state,
                   asm_error, asm_warnings>>

\* the token stream is exhausted: the for loop ends
AsmEndOfTokens ==
    /\ asm_state = "collect"
    /\ tok_pos > Len(tokens)
    /\ asm_state' = "resolve"
    /\ UNCHANGED <<tokens, tok_pos, compiler_state, labels, raw_instructions,
                   instruction_index, output_json, asm_instructions, asm_error,
                   asm_warnings>>

\* mutant of AsmResolve: an instruction that gets the reserved-memory warning
\* is emitted with the first cell after the reserved ones as its destination
AsmResolve_moves_destination ==
    /\ asm_state = "resolve"
    /\ Len(asm_instructions) < Len(raw_instructions)
    /\ LET raw == raw_instructions[Len(asm_instructions) + 1]
           instruction_name == raw[1].value[1]
           instruction_args_tokens == raw[2]
           parsed == parse_argument_tokens(instruction_args_tokens, labels)
           first_argument == parsed.args[1]
           reserved == /\ instruction_name \in ASSIGNMENT_INSTRUCTIONS
                       /\ first_argument.isint
                       /\ first_argument.val <= 11
       IN IF parsed.st = "exit"
          THEN /\ AsmError("Undefined label.")
               /\ UNCHANGED <<asm_instructions, asm_warnings>>
          ELSE IF parsed.st # "ok"
          THEN /\ AsmRaise(parsed.st)
               /\ UNCHANGED <<asm_instructions, asm_warnings>>
          ELSE /\ asm_instructions' =
                     Append(asm_instructions,
                            Ins(instruction_name,
                                IF reserved
                                THEN <<IntArg(12)>> \o Tail(parsed.args)
                                ELSE parsed.args))
               /\ asm_warnings' =
                     IF reserved
                     THEN Append(asm_warnings,
                             [message |-> "Assignment to a reserved memory location.",
                              token |-> instruction_args_tokens[1]])
                     ELSE asm_warnings
               /\ UNCHANGED <<asm_state, asm_error>>
    /\ UNCHANGED <<tokens, tok_pos, compiler_state, labels, raw_instructions,
                   instruction_index, output_json>>

\* one iteration of the loop "parse instruction args" (debug is False)
AsmResolve ==
    /\ asm_state = "resolve"
    /\ Len(asm_instructions) < Len(raw_instructions)
    /\ LET raw == raw_instructions[Len(asm_instructions) + 1]
           instruction_name == raw[1].value[1]
           instruction_args_tokens == raw[2]
           parsed == parse_argument_tokens(instruction_args_tokens, labels)
           first_argument == parsed.args[1]
       IN IF parsed.st = "exit"
          THEN /\ AsmError("Undefined label.")
               /\ UNCHANGED <<asm_instructions, asm_warnings>>
          ELSE IF parsed.st # "ok"
          THEN /\ AsmRaise(parsed.st)
               /\ UNCHANGED <<asm_instructions, asm_warnings>>
          ELSE /\ asm_instructions' =
                     Append(asm_instructions, Ins(instruction_name, parsed.args))
               /\ asm_warnings' =
                     IF /\ instruction_name \in ASSIGNMENT_INSTRUCTIONS
                        /\ first_argument.isint
                        /\ first_argument.val <= 11
                     THEN Append(asm_warnings,
                             [message |-> "Assignment to a reserved memory location.",
                              token |-> instruction_args_tokens[1]])
                     ELSE asm_warnings
               /\ UNCHANGED <<asm_state, asm_error>>
    /\ UNCHANGED <<tokens, tok_pos, compiler_state, labels, raw_instructions,
                   instruction_index, output_json>>

\* mutant of AsmReturn: the start field is the index 0 whenever a start label
\* was declared
AsmReturn_start_at_zero ==
    /\ asm_state = "resolve"
    /\ Len(asm_instructions) = Len(raw_instructions)
    /\ output_json' =
          (IF <<"start">> \in DOMAIN labels THEN "start" :> 0 ELSE << >>)
          @@ (IF <<"tick">> \in DOMAIN labels THEN "tick" :> labels[<<"tick">>]
              ELSE << >>)
          @@ ("instructions" :> asm_instructions)
          @@ output_json
    /\ asm_warnings' =
          IF <<"tick">> \in DOMAIN labels THEN asm_warnings
          ELSE Append(asm_warnings,
                  [message |-> "tick label not found in program.", token |-> NEWLINE])
    /\ asm_state' = "done"
    /\ UNCHANGED <<tokens, tok_pos, compiler_state, labels, raw_instructions,
                   instruction_index, asm_instructions, asm_error>>

\* the end of assemble_tokens: the program is returned
AsmReturn ==
    /\ asm_state = "resolve"
    /\ Len(asm_instructions) = Len(raw_instructions)
    /\ output_json' =
          (IF <<"start">> \in DOMAIN labels THEN "start" :> labels[<<"start">>]
           ELSE << >>)
          @@ (IF <<"tick">> \in DOMAIN labels THEN "tick" :> labels[<<"tick">>]
              ELSE << >>)
          @@ ("instructions" :> asm_instructions)
          @@ output_json
    /\ asm_warnings' =
          IF <<"tick">> \in DOMAIN labels THEN asm_warnings
          ELSE Append(asm_warnings,
                  [message |-> "tick label not found in program.", token |-> NEWLINE])
    /\ asm_state' = "done"
    /\ UNCHANGED <<tokens, tok_pos, compiler_state, labels, raw_instructions,
                   instruction_index, asm_instructions, asm_error>>

-----------------------------------------------------------------------------
(* g1/binary/binary_format.py.  A bytes value is a sequence of 0..255.  The *)
(* integers of the model are below 2^31, so an Int32ub field holds every    *)
(* value the model gives it and an Int32sb field every integer.             *)

SIGNATURE == <<103, 49>>

ARG_TYPE_LITERAL == 0
ARG_TYPE_ADDRESS == 1

INSTRUCTION_IDS ==
    [n \in InstructionNames |->
        (CHOOSE i \in 1..Len(INSTRUCTIONS) : INSTRUCTIONS[i] = n) - 1]

\* the big-endian bytes of v in an n-byte field (two's complement)
RECURSIVE BigEndian(_, _)
BigEndian(v, n) ==
    IF n = 0 THEN <<>> ELSE Append(BigEndian(v \div 256, n - 1), v % 256)

\* building an unsigned field of n bytes: out of range is a FormatFieldError
BuildUnsigned(v, n) ==
    IF v < 0 \/ (n = 1 /\ v > 255) \/ (n = 2 /\ v > 65535)
    THEN [st |-> "FormatFieldError", bytes |-> <<>>]
    ELSE [st |-> "ok", bytes |-> BigEndian(v, n)]

BuildInt32sb(v) == [st |-> "ok", bytes |-> BigEndian(v, 4)]

\* the result of building a sequence of parts: the first failure, or the bytes
BuildAll(parts) ==
    LET bad == {i \in 1..Len(parts) : parts[i].st # "ok"}
    IN IF bad = {}
       THEN [st |-> "ok", bytes |-> Flatten([i \in 1..Len(parts) |-> parts[i].bytes])]
       ELSE [st |-> parts[CHOOSE k \in bad : \A j \in bad : k <= j].st, bytes |-> <<>>]

BuildG1Argument(a) ==
    BuildAll(<<BuildUnsigned(a.type, 1), BuildInt32sb(a.value)>>)

\* G1Instruction: the argument count is computed from the id, never written
BuildG1Instruction(i) ==
    IF i.id + 1 > Len(ARGUMENT_COUNTS)
    THEN [st |-> "IndexError", bytes |-> <<>>]
    ELSE IF Len(i.arguments) # ARGUMENT_COUNTS[i.id + 1]
    THEN [st |-> "RangeError", bytes |-> <<>>]
    ELSE BuildAll(<<BuildUnsigned(i.id, 1)>>
                  \o [k \in 1..Len(i.arguments) |-> BuildG1Argument(i.arguments[k])])

BuildG1DataEntry(d) ==
    IF Len(d.values) # d.size
    THEN [st |-> "RangeError", bytes |-> <<>>]
    ELSE BuildAll(<<BuildUnsigned(d.address, 4), BuildUnsigned(d.size, 4)>>
                  \o [k \in 1..Len(d.values) |-> BuildInt32sb(d.values[k])])

\* G1BinaryFormat.build
Build(f) ==
    IF Len(f["instructions"]) # f["instruction_count"]
       \/ Len(f["data"]) # f["data_entry_count"]
    THEN [st |-> "RangeError", bytes |-> <<>>]
    ELSE BuildAll(
           << [st |-> "ok", bytes |-> SIGNATURE],
              BuildUnsigned(f["meta"]["memory"], 4),
              BuildUnsigned(f["meta"]["width"], 2),
              BuildUnsigned(f["meta"]["height"], 2),
              BuildUnsigned(f["meta"]["tickrate"], 2),
              BuildInt32sb(f["tick"]),
              BuildInt32sb(f["start"]),
              BuildUnsigned(f["instruction_count"], 4) >>
           \o [k \in 1..Len(f["instructions"]) |-> BuildG1Instruction(f["instructions"][k])]
           \o << BuildUnsigned(f["data_entry_count"], 4) >>
           \o [k \in 1..Len(f["data"]) |-> BuildG1DataEntry(f["data"][k])])

\* format_json: the dict G1BinaryFormat.build takes
FormatArgument(argument) ==
    IF argument.isint
    THEN [st |-> "ok", arg |-> [type |-> ARG_TYPE_LITERAL, value |-> argument.val]]
    ELSE IF argument.text = <<>> \/ ~PyInt(Tail(argument.text)).ok
    THEN [st |-> "ValueError", arg |-> [type |-> ARG_TYPE_ADDRESS, value |-> 0]]
    ELSE [st |-> "ok",
          arg |-> [type |-> ARG_TYPE_ADDRESS, value |-> PyInt(Tail(argument.text)).val]]

FormatInstruction(instruction_data) ==
    LET as == [k \in 1..Len(instruction_data.args) |->
                  FormatArgument(instruction_data.args[k])]
        bad == {k \in 1..Len(as) : as[k].st # "ok"}
    IN IF bad # {} THEN [st |-> "ValueError", ins |-> [id |-> 0, arguments |-> <<>>]]
       ELSE IF instruction_data.name \notin DOMAIN INSTRUCTION_IDS
       THEN [st |-> "KeyError", ins |-> [id |-> 0, arguments |-> <<>>]]
       ELSE [st |-> "ok",
             ins |-> [id |-> INSTRUCTION_IDS[instruction_data.name],
                      arguments |-> [k \in 1..Len(as) |-> as[k].arg]]]

format_json(program_json) ==
    LET is == [k \in 1..Len(program_json["instructions"]) |->
                  FormatInstruction(program_json["instructions"][k])]
        bad == {k \in 1..Len(is) : is[k].st # "ok"}
        verbose_data_entries ==
            IF "data" \in DOMAIN program_json
            THEN [k \in 1..Len(program_json["data"]) |->
                    [address |-> program_json["data"][k][1],
                     size |-> Len(program_json["data"][k][2]),
                     values |-> program_json["data"][k][2]]]
            ELSE << >>
    IN IF bad # {}
       THEN [st |-> is[CHOOSE k \in bad : \A j \in bad : k <= j].st, json |-> << >>]
       ELSE [st |-> "ok",
             json |-> ("instruction_count" :> Len(program_json["instructions"]))
                      @@ ("instructions" :> [k \in 1..Len(is) |-> is[k].ins])
                      @@ ("data_entry_count" :> Len(verbose_data_entries))
                      @@ ("data" :> verbose_data_entries)
                      @@ program_json
                      @@ ("start" :> (0 - 1))
                      @@ ("tick" :> (0 - 1))]

\* parsing: a field is read at position pos of the buffer; a buffer that ends
\* inside the field is a StreamError
RECURSIVE Unsigned(_)
Unsigned(bytes) ==
    IF bytes = <<>> THEN 0
    ELSE 256 * Unsigned(SubSeq(bytes, 1, Len(bytes) - 1)) + bytes[Len(bytes)]

Signed32(bytes) ==
    (IF bytes[1] >= 128 THEN bytes[1] - 256 ELSE bytes[1]) * 16777216
    + bytes[2] * 65536 + bytes[3] * 256 + bytes[4]

\* mutant of ParseField: the bytes missing at the end of the buffer read as 0
ParseField_zero_filled(buf, pos, n, signed) ==
    IF pos + n - 1 > Len(buf)
    THEN [st |-> "ok", val |-> 0, pos |-> pos + n]
    ELSE [st |-> "ok",
          val |-> IF signed THEN Signed32(SubSeq(buf, pos, pos + n - 1))
                  ELSE Unsigned(SubSeq(buf, pos, pos + n - 1)),
          pos |-> pos + n]

ParseField(buf, pos, n, signed) ==
    IF pos + n - 1 > Len(buf)
    THEN [st |-> "StreamError", val |-> 0, pos |-> Len(buf) + 1]
    ELSE [st |-> "ok",
          val |-> IF signed THEN Signed32(SubSeq(buf, pos, pos + n - 1))
                  ELSE Unsigned(SubSeq(buf, pos, pos + n - 1)),
          pos |-> pos + n]

\* Array(count, Int32sb) and Array(count, G1Argument)
RECURSIVE ParseValues(_, _, _, _)
ParseValues(buf, pos, count, acc) ==
    IF count = 0 THEN [st |-> "ok", val |-> acc, pos |-> pos]
    ELSE LET v == ParseField(buf, pos, 4, TRUE)
         IN IF v.st # "ok" THEN [st |-> v.st, val |-> acc, pos |-> pos]
            ELSE ParseValues(buf, v.pos, count - 1, Append(acc, v.val))

RECURSIVE ParseArguments(_, _, _, _)
ParseArguments(buf, pos, count, acc) ==
    IF count = 0 THEN [st |-> "ok", val |-> acc, pos |-> pos]
    ELSE LET t == ParseField(buf, pos, 1, FALSE)
             v == ParseField(buf, t.pos, 4, TRUE)
         IN IF t.st # "ok" \/ v.st # "ok"
            THEN [st |-> "StreamError", val |-> acc, pos |-> pos]
            ELSE ParseArguments(buf, v.pos, count - 1,
                                Append(acc, [type |-> t.val, value |-> v.val]))

\* Array(instruction_count, G1Instruction)
RECURSIVE ParseInstructions(_, _, _, _)
ParseInstructions(buf, pos, count, acc) ==
    IF count = 0 THEN [st |-> "ok", val |-> acc, pos |-> pos]
    ELSE LET id == ParseField(buf, pos, 1, FALSE)
         IN IF id.st # "ok" THEN [st |-> id.st, val |-> acc, pos |-> pos]
            ELSE IF id.val + 1 > Len(ARGUMENT_COUNTS)
            THEN [st |-> "IndexError", val |-> acc, pos |-> pos]
            ELSE LET as == ParseArguments(buf, id.pos, ARGUMENT_COUNTS[id.val + 1], <<>>)
                 IN IF as.st # "ok" THEN [st |-> as.st, val |-> acc, pos |-> pos]
                    ELSE ParseInstructions(buf, as.pos, count - 1,
                            Append(acc, [id |-> id.val, arguments |-> as.val]))

\* Array(data_entry_count, G1DataEntry)
RECURSIVE ParseDataEntries(_, _, _, _)
ParseDataEntries(buf, pos, count, acc) ==
    IF count = 0 THEN [st |-> "ok", val |-> acc, pos |-> pos]
    ELSE LET address == ParseField(buf, pos, 4, FALSE)
             size == ParseField(buf, address.pos, 4, FALSE)
             values == ParseValues(buf, size.pos, size.val, <<>>)
         IN IF address.st # "ok" \/ size.st # "ok" \/ values.st # "ok"
            THEN [st |-> "StreamError", val |-> acc, pos |-> pos]
            ELSE ParseDataEntries(buf, values.pos, count - 1,
                    Append(acc, [address |-> address.val, size |-> size.val,
                                 values |-> values.val]))

\* G1BinaryFormat.parse followed by container_to_dict
Parse(buf) ==
    LET memory_f == ParseField(buf, 3, 4, FALSE)
        width_f == ParseField(buf, memory_f.pos, 2, FALSE)
        height_f == ParseField(buf, width_f.pos, 2, FALSE)
        tickrate_f == ParseField(buf, height_f.pos, 2, FALSE)
        tick_f == ParseField(buf, tickrate_f.pos, 4, TRUE)
        start_f == ParseField(buf, tick_f.pos, 4, TRUE)
        count_f == ParseField(buf, start_f.pos, 4, FALSE)
        instructions_f == ParseInstructions(buf, count_f.pos, count_f.val, <<>>)
        dcount_f == ParseField(buf, instructions_f.pos, 4, FALSE)
        data_f == ParseDataEntries(buf, dcount_f.pos, dcount_f.val, <<>>)
    IN IF Len(buf) < Len(SIGNATURE) THEN [st |-> "StreamError", dict |-> << >>]
       ELSE IF SubSeq(buf, 1, Len(SIGNATURE)) # SIGNATURE
       THEN [st |-> "ConstError", dict |-> << >>]
       ELSE IF count_f.st # "ok" THEN [st |-> "StreamError", dict |-> << >>]
       ELSE IF instructions_f.st # "ok" THEN [st |-> instructions_f.st, dict |-> << >>]
       ELSE IF dcount_f.st # "ok" THEN [st |-> "StreamError", dict |-> << >>]
       ELSE IF data_f.st # "ok" THEN [st |-> data_f.st, dict |-> << >>]
       ELSE [st |-> "ok",
             dict |-> [signature |-> SIGNATURE,
                       meta |-> [memory |-> memory_f.val, width |-> width_f.val,
                                 height |-> height_f.val, tickrate |-> tickrate_f.val],
                       tick |-> tick_f.val,
                       start |-> start_f.val,
                       instruction_count |-> count_f.val,
                       instructions |-> instructions_f.val,
                       data_entry_count |-> dcount_f.val,
                       data |-> data_f.val]]

convert_argument(arg_data) ==
    IF arg_data.type = ARG_TYPE_LITERAL THEN IntArg(arg_data.value)
    ELSE StrArg(<<"$">> \o PyStr(arg_data.value))

\* parse_to_program_data, after the parse
ToProgramData(parsed) ==
    LET d1 == Del(Del(parsed, "signature"), "instruction_count")
        d2 == IF d1["start"] = 0 - 1 THEN Del(d1, "start") ELSE d1
        d3 == IF d2["tick"] = 0 - 1 THEN Del(d2, "tick") ELSE d2
        d4 == IF d3["data"] = <<>> THEN Del(Del(d3, "data_entry_count"), "data") ELSE d3
        new_instructions ==
            [k \in 1..Len(d4["instructions"]) |->
                Ins(INSTRUCTIONS[d4["instructions"][k].id + 1],
                    [j \in 1..Len(d4["instructions"][k].arguments) |->
                        convert_argument(d4["instructions"][k].arguments[j])])]
        d5 == ("instructions" :> new_instructions) @@ d4
    IN IF "data" \in DOMAIN d5
       THEN ("data" :> [k \in 1..Len(d5["data"]) |->
                           <<d5["data"][k].address, d5["data"][k].values>>]) @@ d5
       ELSE d5

parse_to_program_data(buf) ==
    IF Parse(buf).st # "ok" THEN [st |-> Parse(buf).st, program_data |-> << >>]
    ELSE [st |-> "ok", program_data |-> ToProgramData(Parse(buf).dict)]

\* file_content.startswith(BINARY_FORMAT_SIGNATURE)
StartsWithSignature(buf) ==
    /\ Len(buf) >= Len(SIGNATURE)
    /\ SubSeq(buf, 1, Len(SIGNATURE)) = SIGNATURE

\* the bytes a JSON text may start with: white space, and the first byte of a
\* value ({ [ " - 0..9 t f n)
JsonFirstBytes ==
    {9, 10, 13, 32, 123, 91, 34, 45, 116, 102, 110} \cup (48..57)

\* json.loads(file_content.decode()), on the buffers that are no JSON text
\* from their first byte on: UnicodeDecodeError or JSONDecodeError, both a
\* ValueError
JsonLoads(buf) ==
    CASE buf = << >> \/ buf[1] \notin JsonFirstBytes ->
            [st |-> "ValueError", program_data |-> << >>]

\* the with block of run_file: the program data, or the exception that ends
\* run_file before run is called
run_file(buf) ==
    IF StartsWithSignature(buf) THEN parse_to_program_data(buf)
    ELSE JsonLoads(buf)

-----------------------------------------------------------------------------
(* g1/assembler/data.py *)

\* text.split('\n')
RECURSIVE SplitLines(_)
SplitLines(text) ==
    IF \A i \in 1..Len(text) : text[i] # "\n" THEN <<text>>
    ELSE LET k == CHOOSE i \in 1..Len(text) :
                      /\ text[i] = "\n"
                      /\ \A j \in 1..(i - 1) : text[j] # "\n"
         IN <<SubSeq(text, 1, k - 1)>> \o SplitLines(SubSeq(text, k + 1, Len(text)))

HexLetters == <<"a", "b", "c", "d", "e", "f">>
HexCapitals == <<"A", "B", "C", "D", "E", "F">>

IsHex(c) ==
    \/ IsDigit(c)
    \/ \E i \in 1..6 : HexLetters[i] = c \/ HexCapitals[i] = c

\* int(c, base=16) of one hexadecimal digit
HexVal(c) ==
    IF IsDigit(c) THEN DigitVal(c)
    ELSE 9 + (CHOOSE i \in 1..6 : HexLetters[i] = c \/ HexCapitals[i] = c)

\* ord(c), on the characters of the string payloads considered
Ord(c) ==
    CASE c = " " -> 32
      [] c = "h" -> 104
      [] c = "i" -> 105
      [] IsDigit(c) -> 48 + DigitVal(c)

\* the number of digits the line starts with
RECURSIVE LeadingDigits(_)
LeadingDigits(line) ==
    IF line = <<>> \/ ~IsDigit(line[1]) THEN 0
    ELSE 1 + LeadingDigits(Tail(line))

\* DATA_LINE_REGEX = ^(\d+) ([fFbs]) (.+)$ matched against one line
DATA_LINE_REGEX(line) ==
    LET n == LeadingDigits(line)
    IN IF /\ n >= 1
          /\ Len(line) >= n + 4
          /\ line[n + 1] = " "
          /\ line[n + 2] \in {"f", "F", "b", "s"}
          /\ line[n + 3] = " "
       THEN [matched |-> TRUE,
             address_str |-> SubSeq(line, 1, n),
             data_type |-> line[n + 2],
             data |-> SubSeq(line, n + 4, Len(line))]
       ELSE [matched |-> FALSE, address_str |-> <<>>, data_type |-> "",
             data |-> <<>>]

\* HEX_REGEX = ([0-9a-fA-F]{2})+$ matched from the start of the payload
HEX_REGEX(data) ==
    /\ Len(data) >= 2
    /\ Len(data) % 2 = 0
    /\ \A i \in 1..Len(data) : IsHex(data[i])

\* [int(data[i:i+2], base=16) for i in range(0, len(data), 2)]
HexBytes(data) ==
    [k \in 1..(Len(data) \div 2) |->
        16 * HexVal(data[2 * k - 1]) + HexVal(data[2 * k])]

\* The files on disk.  A path is its stem followed by its extension; an
\* image file carries what PIL decodes from it: its size and its pixels,
\* (red, green, blue) at column j of row i.
NoImage == [width |-> 0, height |-> 0, pixel |-> << >>]

Files ==
    (<<"twenty", ".bin">> :> [bytes |-> [k \in 1..20 |-> k], image |-> NoImage])
    @@ (<<"ten", ".bin">> :> [bytes |-> [k \in 1..10 |-> 200 + k], image |-> NoImage])
    @@ (<<"empty", ".bin">> :> [bytes |-> << >>, image |-> NoImage])
    @@ (<<"dot", ".PNG">> :>
          [bytes |-> <<137, 80, 78, 71>>,
           image |-> [width |-> 2, height |-> 1,
                      pixel |-> (<<0, 0>> :> <<1, 2, 3>>) @@ (<<1, 0>> :> <<255, 0, 0>>)]])

\* os.path.isfile(path)
IsFile(path) == path \in DOMAIN Files

\* os.path.splitext(path)[1]
SplitExt(path) ==
    IF Len(path) >= 2 THEN path[Len(path)] ELSE ""

\* ext.lower()
Lower(ext) ==
    CASE ext = ".PNG" -> ".png"
      [] ext = ".JPG" -> ".jpg"
      [] ext = ".BMP" -> ".bmp"
      [] OTHER -> ext

img_to_simg(img) ==
    <<img.width, img.height>> \o
    Flatten([i \in 1..img.height |->
                [j \in 1..img.width |->
                    LET pixel == img.pixel[<<j - 1, i - 1>>]
                    IN (pixel[3] * 256 + pixel[2]) * 256 + pixel[1]]])

parse_file(path, file_extension) ==
    IF Lower(file_extension) \in {".png", ".jpg", ".bmp"}
    THEN img_to_simg(Files[path].image)
    ELSE Files[path].bytes

\* the outcome of one step of the loader: the list so far, and the message
\* of error() when the step failed
DataOk(parsed) == [ok |-> TRUE, parsed_data |-> parsed, message |-> ""]
DataFail(parsed, message) == [ok |-> FALSE, parsed_data |-> parsed, message |-> message]

CapacityMessage ==
    "Entry data size exceeds memory capacity. Consider allocating more memory."

\* add_data_entry, with every entry appended unchecked
add_data_entry_unchecked(parsed, size, entry) ==
    DataOk(Append(parsed, entry))

add_data_entry(parsed, size, entry) ==
    IF entry[1] + Len(entry[2]) > size
    THEN DataFail(parsed, CapacityMessage)
    ELSE DataOk(Append(parsed, entry))

\* the body of the loop of parse_data for one line
ParseDataLine(parsed, size, line) ==
    LET m == DATA_LINE_REGEX(line)
        address == PyInt(m.address_str).val
    IN IF ~m.matched
       THEN DataFail(parsed, "Expected [address] [f|F|b|s] [data] syntax for data entry.")
       ELSE IF m.data_type = "b"
       THEN IF ~HEX_REGEX(m.data)
            THEN DataFail(parsed, "Expected hex value for byte data.")
            ELSE add_data_entry(parsed, size, <<address, HexBytes(m.data)>>)
       ELSE IF m.data_type = "s"
       THEN add_data_entry(parsed, size,
                <<address,
                  <<Len(m.data)>> \o [k \in 1..Len(m.data) |-> Ord(m.data[k])]>>)
       ELSE IF ~IsFile(m.data)
            THEN DataFail(parsed, "Path is either nonexistent or not a file.")
            ELSE IF m.data_type = "F"
            THEN DataOk(Append(parsed, <<address, Files[m.data].bytes>>))
            ELSE add_data_entry(parsed, size,
                     <<address, parse_file(m.data, SplitExt(m.data))>>)

\* list.sort(key=lambda x: x[0]): stable, by the first component
RECURSIVE SortByFirst(_)
SortByFirst(l) ==
    IF l = <<>> THEN <<>>
    ELSE LET rest == SortByFirst(SubSeq(l, 1, Len(l) - 1))
             x == l[Len(l)]
             before == SelectSeq(rest, LAMBDA y : y[1] <= x[1])
             after == SelectSeq(rest, LAMBDA y : y[1] > x[1])
         IN before \o <<x>> \o after

Spans(parsed) ==
    SortByFirst([k \in 1..Len(parsed) |->
                    <<parsed[k][1], parsed[k][1] + Len(parsed[k][2]) - 1>>])

\* the pairs of spans a warning is printed for, in the order of printing
OverlapWarnings(spans) ==
    Flatten([i \in 1..(Len(spans) - 1) |->
                SelectSeq([j \in 1..(Len(spans) - i) |-> <<spans[i], spans[i + j]>>],
                          LAMBDA w : w[1][2] >= w[2][1])])

-----------------------------------------------------------------------------
(* g1/assembler/assembler.py: assemble, parse_cli_flags and main.  A        *)
(* command-line argument is a str; a path is its stem followed by its       *)
(* extension.                                                               *)

OUTPUT_FORMATS == {"json", "g1b"}

DEFAULT_OUTPUT_FORMAT == "json"

\* the files main and parse_cli_flags look for: os.path.isfile(path)
SourcePath == <<"in", ".g1">>
DataPath == <<"data", ".g1d">>
BadHexDataPath == <<"badhex", ".g1d">>
TooBigDataPath == <<"toobig", ".g1d">>

MainIsFile(path) == path \in {SourcePath, DataPath, BadHexDataPath, TooBigDataPath}

\* the text of the data file
DataFileText == <<"0", " ", "b", " ", "0", "1", "0", "2", "0", "3">>

\* the text of the data file whose second line has a payload that is not
\* hexadecimal
BadHexDataFileText == DataFileText \o <<"\n", "3", " ", "b", " ", "0", "g">>

\* the text of the data file whose second line is an entry of 10 values at
\* address 120
TooBigDataFileText ==
    DataFileText \o <<"\n", "1", "2", "0", " ", "f", " ", "ten", ".bin">>

\* f.read() of the data file at path
ReadDataFile(path) ==
    CASE path = BadHexDataPath -> BadHexDataFileText
      [] path = TooBigDataPath -> TooBigDataFileText
      [] OTHER -> DataFileText

\* ' '.join(args).split(): the arguments that are not empty (no argument
\* considered holds white space)
JoinSplit(args) == SelectSeq(args, LAMBDA a : a # << >>)

\* parse_cli_flags from position pos of the split flags; next(flags_split)
\* raises StopIteration at the end of the list
RECURSIVE ParseFlagsFrom(_, _, _)
ParseFlagsFrom(flags_split, pos, parsed_flags) ==
    IF pos > Len(flags_split) THEN [st |-> "ok", flags |-> parsed_flags]
    ELSE LET flag == flags_split[pos]
             hasNext == pos + 1 <= Len(flags_split)
         IN IF flag = <<"-d">>
            THEN IF ~hasNext THEN [st |-> "StopIteration", flags |-> parsed_flags]
                 ELSE IF ~MainIsFile(flags_split[pos + 1])
                 THEN [st |-> "FileNotFoundError", flags |-> parsed_flags]
                 ELSE ParseFlagsFrom(flags_split, pos + 2,
                         ("data" :> flags_split[pos + 1]) @@ parsed_flags)
            ELSE IF flag = <<"-dbg">>
            THEN ParseFlagsFrom(flags_split, pos + 1,
                    [parsed_flags EXCEPT !["debug"] = TRUE])
            ELSE IF flag = <<"-f">>
            THEN IF ~hasNext THEN [st |-> "StopIteration", flags |-> parsed_flags]
                 ELSE IF ~(\E f \in OUTPUT_FORMATS : flags_split[pos + 1] = <<f>>)
                 THEN [st |-> "Exception", flags |-> parsed_flags]
                 ELSE ParseFlagsFrom(flags_split, pos + 2,
                         [parsed_flags EXCEPT !["format"] = flags_split[pos + 1][1]])
            ELSE [st |-> "Exception", flags |-> parsed_flags]

parse_cli_flags(args) ==
    ParseFlagsFrom(JoinSplit(args), 1, [debug |-> FALSE, format |-> None])

\* os.path.splitext(path)[1].replace('.', '')
ImpliedFormat(path) ==
    LET ext == SplitExt(path)
    IN CASE ext = ".json" -> "json"
         [] ext = ".g1b" -> "g1b"
         [] ext = ".g1" -> "g1"
         [] OTHER -> ext

\* main up to the call of assemble: the exit code of the sys.exit reached, or
\* the flags assemble is called with
MainUntilAssemble(args) ==
    IF Len(args) = 1 THEN [st |-> "exit", code |-> 0, flags |-> << >>]
    ELSE IF Len(args) = 2 THEN [st |-> "exit", code |-> 1, flags |-> << >>]
    ELSE IF ~MainIsFile(args[2]) THEN [st |-> "exit", code |-> 1, flags |-> << >>]
    ELSE LET p == parse_cli_flags(SubSeq(args, 4, Len(args)))
         IN IF p.st # "ok" THEN [st |-> "exit", code |-> 2, flags |-> << >>]
            ELSE [st |-> "assemble", code |-> 0,
                  flags |-> IF p.flags["format"] # None THEN p.flags
                            ELSE IF ImpliedFormat(args[3]) \in OUTPUT_FORMATS
                            THEN [p.flags EXCEPT !["format"] = ImpliedFormat(args[3])]
                            ELSE [p.flags EXCEPT !["format"] = DEFAULT_OUTPUT_FORMAT]]

\* parse_data on a whole text: the list of entries, or None
RECURSIVE ParseDataLines(_, _, _)
ParseDataLines(lines, size, parsed) ==
    IF lines = << >> THEN [ok |-> TRUE, parsed_data |-> parsed]
    ELSE LET r == ParseDataLine(parsed, size, lines[1])
         IN IF ~r.ok THEN [ok |-> FALSE, parsed_data |-> << >>]
            ELSE ParseDataLines(Tail(lines), size, r.parsed_data)

parse_data(text, size) == ParseDataLines(SplitLines(text), size, << >>)

\* assemble after assemble_tokens returned program: the data entries are
\* added and the content of the output file is made; st is the exception
\* that leaves assemble, if any
AssembleOutput(program, f) ==
    LET data ==
            parse_data(ReadDataFile(f["data"]), program["meta"]["memory"])
        dataIsNone == "data" \in DOMAIN f /\ ~data.ok
        withData ==
            IF "data" \in DOMAIN f
            THEN ("data" :> IF data.ok THEN data.parsed_data ELSE None) @@ program
            ELSE program
    IN IF f["format"] = "json"
       THEN [st |-> "ok", format |-> "json", json |-> withData, bytes |-> << >>]
       ELSE IF dataIsNone
       THEN [st |-> "TypeError", format |-> "g1b", json |-> << >>, bytes |-> << >>]
       ELSE IF format_json(withData).st # "ok"
       THEN [st |-> format_json(withData).st, format |-> "g1b", json |-> << >>,
             bytes |-> << >>]
       ELSE LET b == Build(format_json(withData).json)
            IN [st |-> b.st, format |-> "g1b", json |-> << >>,
                bytes |-> IF b.st = "ok" THEN b.bytes ELSE << >>]

-----------------------------------------------------------------------------
(* The components at rest: what a specification of one component gives the *)
(* variables of the others.                                                *)

VmIdle ==
    /\ program_data = << >>
    /\ memory = << >>
    /\ program_counter = 0
    /\ color = <<0, 0, 0>>
    /\ vm_state = "none"
    /\ runtime_error = ""
    /\ disable_log = FALSE
    /\ log_sink = << >>
    /\ steps = 0
    /\ run_index = 0
    /\ entry_memory = << >>
    /\ executed = << >>

AsmIdle ==
    /\ tokens = << >>
    /\ tok_pos = 1
    /\ compiler_state = "META"
    /\ labels = << >>
    /\ raw_instructions = << >>
    /\ instruction_index = 0
    /\ output_json = << >>
    /\ asm_instructions = << >>
    /\ asm_state = "none"
    /\ asm_error = ""
    /\ asm_warnings = << >>

CodecIdle ==
    /\ codec_in = << >>
    /\ formatted_json = << >>
    /\ file_content = << >>
    /\ codec_out = << >>
    /\ codec_state = "none"

DataIdle ==
    /\ data_entries = << >>
    /\ memory_size = 0
    /\ line_number = 0
    /\ parsed_data = << >>
    /\ data_state = "none"
    /\ data_error = ""
    /\ data_warnings = << >>

MainIdle ==
    /\ argv = << >>
    /\ main_state = "none"
    /\ exit_code = 0
    /\ flags = << >>
    /\ out_file = << >>

RunIdle ==
    /\ run_state = "none"
    /\ running = FALSE
    /\ delta_ms = 0
    /\ frames = 0
    /\ run_log = << >>

-----------------------------------------------------------------------------
(* Specification Spec: one ProgramContext and the calls of its owner.      *)
(* update_reserved_memory and start_program_thread are called while no run *)
(* is in progress; a run is a sequence of fetch-execute cycles.            *)

\* the instructions programs are built from
InstrPool ==
    { Ins("mov", <<Addr(5), IntArg(10)>>),
      Ins("mov", <<Addr(6), Addr(5)>>),
      Ins("mov", <<IntArg(5), IntArg(10)>>),
      Ins("mov", <<IntArg(6), Addr(5)>>),
      Ins("div", <<Addr(0), IntArg(10), IntArg(0)>>),
      Ins("mod", <<IntArg(14), IntArg(7), Addr(15)>>),
      Ins("jmp", <<IntArg(0), IntArg(1)>>),
      Ins("jmp", <<IntArg(3), Addr(5)>>),
      Ins("add", <<IntArg(15), Addr(15), IntArg(1)>>),
      Ins("color", <<IntArg(1), IntArg(2), Addr(14)>>),
      Ins("log", <<Addr(5)>>) }

MetaPool == { [memory |-> 16, width |-> 100, height |-> 100, tickrate |-> 60] }

Programs ==
    { [meta |-> m, instructions |-> is] :
        m \in MetaPool, is \in SeqsUpTo(InstrPool, MaxProgLen) }

\* what update_reserved_memory reads: the states of the eight keys (RETURN,
\* RSHIFT, z, x, UP, DOWN, LEFT, RIGHT) and the caller's delta_ms
DriverInputs ==
    { [keys |-> <<0, 0, 0, 0, 0, 0, 0, 0>>, delta_ms |-> 0],
      [keys |-> <<1, 0, 0, 0, 0, 1, 0, 0>>, delta_ms |-> 16] }

HasLog(is) == \E i \in 1..Len(is) : is[i].name = "log"

Init ==
    /\ program_data \in Programs
    /\ memory = ProgramContext(program_data).memory
    /\ vm_state = IF ProgramContext(program_data).ok THEN "idle" ELSE "G1PyException"
    /\ program_counter = 0
    /\ color = <<0, 0, 0>>
    /\ runtime_error = ""
    \* the flag only matters to a program that has a log instruction
    /\ disable_log \in {FALSE} \cup {HasLog(program_data["instructions"])}
    /\ log_sink = << >>
    /\ steps = 0
    /\ run_index = 0
    /\ entry_memory = << >>
    /\ executed = << >>
    /\ AsmIdle /\ CodecIdle /\ DataIdle /\ MainIdle /\ RunIdle

UpdateReservedMemory(keys, delta) ==
    /\ vm_state = "idle"
    /\ memory' = SliceAssignFront(memory,
                    ReservedValues(program_data["meta"], keys, delta))
    /\ UNCHANGED <<program_data, program_counter, color, vm_state, runtime_error,
                   disable_log, log_sink, steps, run_index, entry_memory,
                   executed>>

\* mutant of StartProgramThread: every run is entered at index 0
StartProgramThread_from_zero(index) ==
    /\ vm_state = "idle"
    /\ program_counter' = 0
    /\ vm_state' = "running"
    /\ run_index' = index
    /\ entry_memory' = memory
    /\ executed' = << >>
    /\ UNCHANGED <<program_data, memory, color, runtime_error, disable_log,
                   log_sink, steps>>

\* start_program_thread, up to the loop
StartProgramThread(index) ==
    /\ vm_state = "idle"
    /\ program_counter' = index
    /\ vm_state' = "running"
    /\ run_index' = index
    /\ entry_memory' = memory
    /\ executed' = << >>
    /\ UNCHANGED <<program_data, memory, color, runtime_error, disable_log,
                   log_sink, steps>>

\* one iteration of the loop
Step ==
    /\ vm_state = "running"
    /\ steps < MaxSteps
    /\ program_counter < Len(program_data["instructions"])
    /\ LET c == Cycle(program_data["instructions"], memory, color,
                      program_counter, disable_log)
       IN /\ memory' = c.o.memory
          /\ color' = c.o.color
          /\ program_counter' = c.pc
          /\ log_sink' = log_sink \o c.o.out
          /\ vm_state' = IF c.o.st = "ok" THEN "running" ELSE c.o.st
          /\ runtime_error' = c.o.msg
    /\ steps' = steps + 1
    /\ executed' = Append(executed, program_counter)
    /\ UNCHANGED <<program_data, disable_log, run_index, entry_memory>>

\* the loop condition fails: start_program_thread returns
ThreadReturn ==
    /\ vm_state = "running"
    /\ ~(program_counter < Len(program_data["instructions"]))
    /\ vm_state' = "idle"
    /\ UNCHANGED <<program_data, memory, program_counter, color, runtime_error,
                   disable_log, log_sink, steps, run_index, entry_memory,
                   executed>>

Next ==
    \/ (\E inp \in DriverInputs : UpdateReservedMemory(inp.keys, inp.delta_ms))
         /\ UNCHANGED <<asmVars, codecVars, dataVars, mainVars, runVars>>
    \/ (\E index \in 0..Len(program_data["instructions"]) : StartProgramThread(index))
         /\ UNCHANGED <<asmVars, codecVars, dataVars, mainVars, runVars>>
    \/ Step /\ UNCHANGED <<asmVars, codecVars, dataVars, mainVars, runVars>>
    \/ ThreadReturn /\ UNCHANGED <<asmVars, codecVars, dataVars, mainVars, runVars>>

Spec == Init /\ [][Next]_vars

-----------------------------------------------------------------------------
(* Specification SpecCycle: the same context and calls as Spec, on programs  *)
(* that have every opcode, with operands of both kinds, negative values and  *)
(* jmp targets outside the instruction list.  With the data entry, cells 13  *)
(* to 15 hold -7, 2 and 14 at construction.                                  *)

\* longest instruction list of these programs
MaxCycleLen == 1

CycleInstrPool ==
    { Ins("mov", <<Addr(15), Addr(13)>>),
      Ins("movp", <<IntArg(13), Addr(15)>>),
      Ins("add", <<IntArg(13), Addr(13), Addr(14)>>),
      Ins("sub", <<Addr(15), Addr(14), Addr(13)>>),
      Ins("mul", <<IntArg(14), Addr(13), Addr(14)>>),
      Ins("div", <<IntArg(13), Addr(13), Addr(14)>>),
      Ins("div", <<IntArg(13), IntArg(7), IntArg(0 - 2)>>),
      Ins("mod", <<IntArg(13), Addr(13), Addr(14)>>),
      Ins("mod", <<Addr(15), IntArg(7), IntArg(0 - 2)>>),
      Ins("less", <<IntArg(13), Addr(13), Addr(14)>>),
      Ins("equal", <<IntArg(13), Addr(14), IntArg(2)>>),
      Ins("not", <<IntArg(13), Addr(14)>>),
      Ins("not", <<Addr(15), IntArg(0)>>),
      Ins("jmp", <<IntArg(0 - 1), IntArg(1)>>),
      Ins("jmp", <<IntArg(0 - 5), IntArg(1)>>),
      Ins("jmp", <<IntArg(0), IntArg(0)>>),
      Ins("jmp", <<IntArg(5), Addr(14)>>),
      Ins("color", <<IntArg(1), IntArg(2), Addr(14)>>),
      Ins("point", <<IntArg(1), Addr(14)>>),
      Ins("line", <<IntArg(1), IntArg(2), IntArg(3), Addr(14)>>),
      Ins("rect", <<Addr(14), IntArg(2), IntArg(3), IntArg(4)>>),
      Ins("log", <<Addr(13)>>),
      Ins("log", <<Addr(99)>>) }

CyclePrograms ==
    { d @@ [meta |-> m, instructions |-> is] :
        m \in MetaPool,
        is \in SeqsUpTo(CycleInstrPool, MaxCycleLen),
        d \in OptionalKey("data", { << <<13, <<0 - 7, 2, 14>>>> >> }) }

InitCycle ==
    /\ program_data \in CyclePrograms
    /\ memory = ProgramContext(program_data).memory
    /\ vm_state = IF ProgramContext(program_data).ok THEN "idle" ELSE "G1PyException"
    /\ program_counter = 0
    /\ color = <<0, 0, 0>>
    /\ runtime_error = ""
    /\ disable_log \in {FALSE} \cup {HasLog(program_data["instructions"])}
    /\ log_sink = << >>
    /\ steps = 0
    /\ run_index = 0
    /\ entry_memory = << >>
    /\ executed = << >>
    /\ AsmIdle /\ CodecIdle /\ DataIdle /\ MainIdle /\ RunIdle

SpecCycle == InitCycle /\ [][Next]_vars

-----------------------------------------------------------------------------
(* Specification SpecRun: run(program_data), the driver of the virtual      *)
(* machine.  The context is constructed, the start run is made if the       *)
(* program has a start index, and the frames follow if it has a tick index. *)
(* The driver is one sequential procedure: its position is run_state, and   *)
(* run_log records its calls of update_reserved_memory and                  *)
(* start_program_thread in their order.                                     *)

\* longest instruction list of a program given to run
MaxRunLen == 2
\* frames followed in one behaviour
MaxFrames == 2

RunInstrPool ==
    { Ins("mov", <<IntArg(10), IntArg(7)>>),
      Ins("mov", <<IntArg(20), Addr(14)>>),
      Ins("movp", <<IntArg(3), IntArg(12)>>),
      Ins("add", <<IntArg(3), IntArg(INT32_MAX), IntArg(1)>>),
      Ins("mov", <<IntArg(13), IntArg(7)>>),
      Ins("color", <<IntArg(1), IntArg(2), IntArg(3)>>),
      Ins("jmp", <<IntArg(0), IntArg(1)>>) }

RunMetaPool ==
    { [memory |-> 4, width |-> 100, height |-> 100, tickrate |-> 60],
      [memory |-> 16, width |-> 100, height |-> 100, tickrate |-> 60] }

\* data entries: one entry; three entries, the second over the last cell of
\* the first, the third beyond a memory of 4 cells
RunDataPool ==
    { << <<2, <<5, 6>>>> >>,
      << <<2, <<5, 6>>>>, <<3, <<7>>>>, <<14, <<9>>>> >> }

RunPrograms ==
    { s @@ t @@ d @@ [meta |-> m, instructions |-> is] :
        m \in RunMetaPool,
        is \in SeqsUpTo(RunInstrPool, MaxRunLen),
        s \in OptionalKey("start", {0}),
        t \in OptionalKey("tick", {0, 1}),
        d \in OptionalKey("data", RunDataPool) }

\* an entry of run_log
UpdateCall == [call |-> "update_reserved_memory", index |-> 0]
ThreadCall(index) == [call |-> "start_program_thread", index |-> index]

InitRun ==
    /\ program_data \in RunPrograms
    /\ memory = ProgramContext(program_data).memory
    /\ vm_state = IF ProgramContext(program_data).ok THEN "idle" ELSE "G1PyException"
    /\ program_counter = 0
    /\ color = <<0, 0, 0>>
    /\ runtime_error = ""
    /\ disable_log = FALSE
    /\ log_sink = << >>
    /\ steps = 0
    /\ run_index = 0
    /\ entry_memory = << >>
    /\ executed = << >>
    /\ run_state = "constructed"
    /\ running = FALSE
    /\ delta_ms = 0
    /\ frames = 0
    /\ run_log = << >>
    /\ AsmIdle /\ CodecIdle /\ DataIdle /\ MainIdle

\* update_reserved_memory(program_context, 0) before the start run
RunStartUpdate ==
    /\ run_state = "constructed"
    /\ vm_state = "idle"
    /\ "start" \in DOMAIN program_data
    /\ \E inp \in DriverInputs : UpdateReservedMemory(inp.keys, 0)
    /\ run_state' = "start_update"
    /\ run_log' = Append(run_log, UpdateCall)
    /\ UNCHANGED <<running, delta_ms, frames>>

\* start_program_thread(program_context, program_data['start'], ...)
RunStartThread ==
    /\ run_state = "start_update"
    /\ StartProgramThread(program_data["start"])
    /\ run_state' = "start_thread"
    /\ run_log' = Append(run_log, ThreadCall(program_data["start"]))
    /\ UNCHANGED <<running, delta_ms, frames>>

\* the start run is over, or there was none
StartDone ==
    \/ run_state = "constructed" /\ "start" \notin DOMAIN program_data
    \/ run_state = "start_thread" /\ vm_state = "idle"

\* `if 'tick' not in program_data: return`
RunReturnWithoutTick ==
    /\ StartDone
    /\ vm_state = "idle"
    /\ "tick" \notin DOMAIN program_data
    /\ run_state' = "returned"
    /\ UNCHANGED <<vmVars, running, delta_ms, frames, run_log>>

\* mutant of RunEnterFrames: the first frame goes to its tick run without
\* the update of the reserved cells
RunEnterFrames_skips_update ==
    /\ StartDone
    /\ vm_state = "idle"
    /\ "tick" \in DOMAIN program_data
    /\ run_state' = "frame_update"
    /\ running' = TRUE
    /\ delta_ms' = 0
    /\ UNCHANGED <<vmVars, frames, run_log>>

\* the frame loop is entered: delta_ms = 0, running = True
RunEnterFrames ==
    /\ StartDone
    /\ vm_state = "idle"
    /\ "tick" \in DOMAIN program_data
    /\ run_state' = "frame"
    /\ running' = TRUE
    /\ delta_ms' = 0
    /\ UNCHANGED <<vmVars, frames, run_log>>

\* a frame, up to the tick run: the events are read (quit says whether a
\* QUIT event is among them) and the reserved cells are updated
RunFrameUpdate(quit) ==
    /\ run_state = "frame"
    /\ running
    /\ frames < MaxFrames
    /\ running' = ~quit
    /\ \E inp \in DriverInputs : UpdateReservedMemory(inp.keys, delta_ms)
    /\ run_state' = "frame_update"
    /\ run_log' = Append(run_log, UpdateCall)
    /\ UNCHANGED <<delta_ms, frames>>

\* mutant of RunFrameThread: the frame runs the loop from index 0
RunFrameThread_from_zero ==
    /\ run_state = "frame_update"
    /\ StartProgramThread(0)
    /\ run_state' = "frame_thread"
    /\ run_log' = Append(run_log, ThreadCall(0))
    /\ UNCHANGED <<running, delta_ms, frames>>

\* mutant of RunFrameThread: the frame makes its run on a context constructed
\* anew
RunFrameThread_new_context ==
    /\ run_state = "frame_update"
    /\ vm_state = "idle"
    /\ program_counter' = program_data["tick"]
    /\ vm_state' = "running"
    /\ run_index' = program_data["tick"]
    /\ memory' = ProgramContext(program_data).memory
    /\ color' = <<0, 0, 0>>
    /\ entry_memory' = memory'
    /\ executed' = << >>
    /\ UNCHANGED <<program_data, runtime_error, disable_log, log_sink, steps>>
    /\ run_state' = "frame_thread"
    /\ run_log' = Append(run_log, ThreadCall(program_data["tick"]))
    /\ UNCHANGED <<running, delta_ms, frames>>

\* start_program_thread(program_context, tick_label_index, ...)
RunFrameThread ==
    /\ run_state = "frame_update"
    /\ StartProgramThread(program_data["tick"])
    /\ run_state' = "frame_thread"
    /\ run_log' = Append(run_log, ThreadCall(program_data["tick"]))
    /\ UNCHANGED <<running, delta_ms, frames>>

\* the rest of the frame: the surface is shown and the clock ticks
RunFrameEnd(elapsed) ==
    /\ run_state = "frame_thread"
    /\ vm_state = "idle"
    /\ delta_ms' = elapsed
    /\ frames' = frames + 1
    /\ run_state' = "frame"
    /\ UNCHANGED <<vmVars, running, run_log>>

\* `while running` fails: run returns
RunReturn ==
    /\ run_state = "frame"
    /\ ~running
    /\ run_state' = "returned"
    /\ UNCHANGED <<vmVars, running, delta_ms, frames, run_log>>

NextRun ==
    \/ RunStartUpdate /\ UNCHANGED <<asmVars, codecVars, dataVars, mainVars>>
    \/ RunStartThread /\ UNCHANGED <<asmVars, codecVars, dataVars, mainVars>>
    \/ RunReturnWithoutTick /\ UNCHANGED <<asmVars, codecVars, dataVars, mainVars>>
    \/ RunEnterFrames /\ UNCHANGED <<asmVars, codecVars, dataVars, mainVars>>
    \/ (\E quit \in BOOLEAN : RunFrameUpdate(quit))
         /\ UNCHANGED <<asmVars, codecVars, dataVars, mainVars>>
    \/ RunFrameThread /\ UNCHANGED <<asmVars, codecVars, dataVars, mainVars>>
    \/ (\E elapsed \in {16} : RunFrameEnd(elapsed))
         /\ UNCHANGED <<asmVars, codecVars, dataVars, mainVars>>
    \/ RunReturn /\ UNCHANGED <<asmVars, codecVars, dataVars, mainVars>>
    \/ Step /\ UNCHANGED <<asmVars, codecVars, dataVars, mainVars, runVars>>
    \/ ThreadReturn /\ UNCHANGED <<asmVars, codecVars, dataVars, mainVars, runVars>>

SpecRun == InitRun /\ [][NextRun]_vars

-----------------------------------------------------------------------------
(* Specification SpecAsm: assemble_tokens on one token stream.  A stream is *)
(* a sequence of source lines, each ending in its NEWLINE; assemble lexes   *)
(* the source text with a newline appended.                                 *)

\* source lines the token streams are built from
MaxLines == 3

Number(n) == Tok("NUMBER", PyStr(n))
Address(n) == Tok("ADDRESS", <<"$">> \o NatStr(n))
Name(w) == Tok("NAME", <<w>>)
LabelName(w) == Tok("LABEL_NAME", <<w, ":">>)
MetaVariable(w) == Tok("META_VARIABLE", <<"#", w>>)
Comment == Tok("COMMENT", <<"(", "c", ")">>)

LinePool ==
    { <<MetaVariable("memory"), Number(64), NEWLINE>>,
      <<LabelName("tick"), NEWLINE>>,
      <<LabelName("start"), NEWLINE>>,
      <<Name("mov"), Number(3), Address(20), NEWLINE>>,
      <<Name("jmp"), Name("tick"), Comment, Number(1), NEWLINE>>,
      <<Name("jmp"), Name("nowhere"), Number(1), NEWLINE>>,
      <<Name("log"), MetaVariable("width"), NEWLINE>>,
      <<Name("add"), Number(20), Address(20), Comment, NEWLINE>>,
      <<Number(5), NEWLINE>>,
      <<Address(7), NEWLINE>>,
      <<Name("foo"), Number(1), NEWLINE>>,
      <<MetaVariable("speed"), Number(5), NEWLINE>>,
      <<MetaVariable("width"), NEWLINE>>,
      <<Name("log"), MetaVariable("speed"), NEWLINE>>,
      <<Tok("LexingError", <<"@">>)>> }

TokenStreams == { Flatten(ls) : ls \in SeqsUpTo(LinePool, MaxLines) }

InitAsm ==
    /\ tokens \in TokenStreams
    /\ tok_pos = 1
    /\ compiler_state = "META"
    /\ labels = << >>
    /\ raw_instructions = << >>
    /\ instruction_index = 0
    /\ output_json = [meta |-> META_VARIABLES]
    /\ asm_instructions = << >>
    /\ asm_state = "collect"
    /\ asm_error = ""
    /\ asm_warnings = << >>
    /\ VmIdle /\ CodecIdle /\ DataIdle /\ MainIdle /\ RunIdle

NextAsm ==
    \/ AsmLexingError /\ UNCHANGED <<vmVars, codecVars, dataVars, mainVars, runVars>>
    \/ AsmMetaVariable /\ UNCHANGED <<vmVars, codecVars, dataVars, mainVars, runVars>>
    \/ AsmLabelName /\ UNCHANGED <<vmVars, codecVars, dataVars, mainVars, runVars>>
    \/ AsmName /\ UNCHANGED <<vmVars, codecVars, dataVars, mainVars, runVars>>
    \/ AsmValue /\ UNCHANGED <<vmVars, codecVars, dataVars, mainVars, runVars>>
    \/ AsmSkip /\ UNCHANGED <<vmVars, codecVars, dataVars, mainVars, runVars>>
    \/ AsmEndOfTokens /\ UNCHANGED <<vmVars, codecVars, dataVars, mainVars, runVars>>
    \/ AsmResolve /\ UNCHANGED <<vmVars, codecVars, dataVars, mainVars, runVars>>
    \/ AsmReturn /\ UNCHANGED <<vmVars, codecVars, dataVars, mainVars, runVars>>

SpecAsm == InitAsm /\ [][NextAsm]_vars

-----------------------------------------------------------------------------
(* Specification SpecCodec: one program written in the binary format, as   *)
(* assemble does (format_json, then G1BinaryFormat.build), and read back,   *)
(* as run_file does (parse_to_program_data).                                *)

\* longest instruction list of a program given to the codec
MaxCodecLen == 2

\* an instruction as debug mode emits it: with its source line
DebugIns(name, args, line) == [name |-> name, args |-> args, line |-> line]

CodecInstrPool ==
    { Ins("mov", <<IntArg(20), IntArg(0 - 1)>>),
      Ins("jmp", <<IntArg(0), Addr(300)>>),
      Ins("log", <<StrArg(<<"$", "0", "5">>)>>),
      DebugIns("log", <<Addr(5)>>, 3) }

CodecMetaPool ==
    { META_VARIABLES,
      [memory |-> 70000, width |-> 65535, height |-> 1, tickrate |-> 0] }

CodecDataPool ==
    { << >>,
      << <<20, <<1, 0 - 2>>>> >>,
      << <<0, <<1, 2, 3>>>>, <<2, <<9, 9>>>> >> }

CodecPrograms ==
    { s @@ t @@ d @@ src @@ [meta |-> m, instructions |-> is] :
        m \in CodecMetaPool,
        is \in SeqsUpTo(CodecInstrPool, MaxCodecLen),
        s \in OptionalKey("start", {0}),
        t \in OptionalKey("tick", {1}),
        d \in OptionalKey("data", CodecDataPool),
        src \in OptionalKey("source", { <<"line">> }) }

InitCodec ==
    /\ codec_in \in CodecPrograms
    /\ formatted_json = << >>
    /\ file_content = << >>
    /\ codec_out = << >>
    /\ codec_state = "program"
    /\ VmIdle /\ AsmIdle /\ DataIdle /\ MainIdle /\ RunIdle

CodecFormatJson ==
    /\ codec_state = "program"
    /\ LET r == format_json(codec_in)
       IN /\ formatted_json' = r.json
          /\ codec_state' = IF r.st = "ok" THEN "formatted" ELSE r.st
    /\ UNCHANGED <<codec_in, file_content, codec_out>>

CodecBuild ==
    /\ codec_state = "formatted"
    /\ LET r == Build(formatted_json)
       IN /\ file_content' = r.bytes
          /\ codec_state' = IF r.st = "ok" THEN "built" ELSE r.st
    /\ UNCHANGED <<codec_in, formatted_json, codec_out>>

CodecParse ==
    /\ codec_state = "built"
    /\ LET r == parse_to_program_data(file_content)
       IN /\ codec_out' = r.program_data
          /\ codec_state' = IF r.st = "ok" THEN "parsed" ELSE r.st
    /\ UNCHANGED <<codec_in, formatted_json, file_content>>

NextCodec ==
    \/ CodecFormatJson /\ UNCHANGED <<vmVars, asmVars, dataVars, mainVars, runVars>>
    \/ CodecBuild /\ UNCHANGED <<vmVars, asmVars, dataVars, mainVars, runVars>>
    \/ CodecParse /\ UNCHANGED <<vmVars, asmVars, dataVars, mainVars, runVars>>

SpecCodec == InitCodec /\ [][NextCodec]_vars

-----------------------------------------------------------------------------
(* Specification SpecRunFile: a file written in the binary format, found    *)
(* damaged on disk (cut short, its first two bytes replaced), and given to  *)
(* parse_to_program_data or to run_file.                                    *)

\* longest instruction list of a program whose file is read
MaxFileLen == 1

FilePrograms ==
    { s @@ d @@ [meta |-> META_VARIABLES, instructions |-> is] :
        is \in SeqsUpTo(CodecInstrPool, MaxFileLen),
        s \in OptionalKey("start", {0}),
        d \in OptionalKey("data", CodecDataPool) }

\* two bytes found in the place of the signature
OtherSignatures == { <<103, 50>>, <<0, 0>> }

InitRunFile ==
    /\ codec_in \in FilePrograms
    /\ formatted_json = << >>
    /\ file_content = << >>
    /\ codec_out = << >>
    /\ codec_state = "program"
    /\ VmIdle /\ AsmIdle /\ DataIdle /\ MainIdle /\ RunIdle

\* the file on disk holds only the first n bytes written
FileCut(n) ==
    /\ codec_state = "built"
    /\ n < Len(file_content)
    /\ file_content' = SubSeq(file_content, 1, n)
    /\ codec_state' = "cut"
    /\ UNCHANGED <<codec_in, formatted_json, codec_out>>

\* the file on disk starts with two other bytes
FileSigned(sig) ==
    /\ codec_state \in {"built", "cut"}
    /\ Len(file_content) >= Len(SIGNATURE)
    /\ file_content' = sig \o SubSeq(file_content, Len(SIGNATURE) + 1, Len(file_content))
    /\ codec_state' = "resigned"
    /\ UNCHANGED <<codec_in, formatted_json, codec_out>>

OnDisk == codec_state \in {"built", "cut", "resigned"}

\* parse_to_program_data(file_content)
DecodeBuffer ==
    /\ OnDisk
    /\ LET r == parse_to_program_data(file_content)
       IN /\ codec_out' = r.program_data
          /\ codec_state' = IF r.st = "ok" THEN "parsed" ELSE r.st
    /\ UNCHANGED <<codec_in, formatted_json, file_content>>

\* run_file(file_path), up to the call of run
RunFile ==
    /\ OnDisk
    /\ LET r == run_file(file_content)
       IN /\ codec_out' = r.program_data
          /\ codec_state' = IF r.st = "ok" THEN "run" ELSE r.st
    /\ UNCHANGED <<codec_in, formatted_json, file_content>>

NextRunFile ==
    \/ CodecFormatJson /\ UNCHANGED <<vmVars, asmVars, dataVars, mainVars, runVars>>
    \/ CodecBuild /\ UNCHANGED <<vmVars, asmVars, dataVars, mainVars, runVars>>
    \/ (\E n \in 0..Len(file_content) : FileCut(n))
          /\ UNCHANGED <<vmVars, asmVars, dataVars, mainVars, runVars>>
    \/ (\E sig \in OtherSignatures : FileSigned(sig))
          /\ UNCHANGED <<vmVars, asmVars, dataVars, mainVars, runVars>>
    \/ DecodeBuffer /\ UNCHANGED <<vmVars, asmVars, dataVars, mainVars, runVars>>
    \/ RunFile /\ UNCHANGED <<vmVars, asmVars, dataVars, mainVars, runVars>>

SpecRunFile == InitRunFile /\ [][NextRunFile]_vars

-----------------------------------------------------------------------------
(* Specification SpecData: parse_data on one data file.  The loop over the  *)
(* lines is followed line by line; the overlap report and the return are    *)
(* one step.                                                                *)

\* most lines of a data file
MaxDataLines == 3

DataLinePool ==
    { <<"0", " ", "b", " ", "0", "1", "0", "2", "0", "3">>,
      <<"2", " ", "b", " ", "0", "9", "0", "9">>,
      <<"1", "0", "0", " ", "f", " ", "twenty", ".bin">>,
      <<"1", "2", "0", " ", "f", " ", "ten", ".bin">>,
      <<"1", "2", "0", " ", "F", " ", "ten", ".bin">>,
      <<"1", " ", "f", " ", "empty", ".bin">>,
      <<"5", " ", "s", " ", "h", "i">>,
      <<"4", " ", "f", " ", "dot", ".PNG">>,
      <<"3", " ", "b", " ", "0", "g">>,
      <<"7", " ", "F", " ", "nofile">>,
      << >> }

\* '\n'.join(lines)
RECURSIVE JoinLines(_)
JoinLines(lines) ==
    IF Len(lines) = 1 THEN lines[1]
    ELSE lines[1] \o <<"\n">> \o JoinLines(Tail(lines))

DataTexts ==
    { JoinLines(ls) : ls \in SeqsUpTo(DataLinePool, MaxDataLines) \ { << >> } }

MemorySizes == {6, 128}

InitData ==
    /\ data_entries \in DataTexts
    /\ memory_size \in MemorySizes
    /\ line_number = 0
    /\ parsed_data = << >>
    /\ data_state = "lines"
    /\ data_error = ""
    /\ data_warnings = << >>
    /\ VmIdle /\ AsmIdle /\ CodecIdle /\ MainIdle /\ RunIdle

\* one iteration of `for line_number, line in enumerate(...)`
DataLine ==
    /\ data_state = "lines"
    /\ line_number < Len(SplitLines(data_entries))
    /\ LET r == ParseDataLine(parsed_data, memory_size,
                              SplitLines(data_entries)[line_number + 1])
       IN /\ parsed_data' = r.parsed_data
          /\ data_error' = r.message
          /\ data_state' = IF r.ok THEN "lines" ELSE "None"
          /\ line_number' = IF r.ok THEN line_number + 1 ELSE line_number
    /\ UNCHANGED <<data_entries, memory_size, data_warnings>>

\* the end of the loop: the overlap report, and `return parsed_data`
DataOverlap ==
    /\ data_state = "lines"
    /\ line_number = Len(SplitLines(data_entries))
    /\ data_warnings' = OverlapWarnings(Spans(parsed_data))
    /\ data_state' = "returned"
    /\ UNCHANGED <<data_entries, memory_size, line_number, parsed_data, data_error>>

NextData ==
    \/ DataLine /\ UNCHANGED <<vmVars, asmVars, codecVars, mainVars, runVars>>
    \/ DataOverlap /\ UNCHANGED <<vmVars, asmVars, codecVars, mainVars, runVars>>

SpecData == InitData /\ [][NextData]_vars

-----------------------------------------------------------------------------
(* Specification SpecMain: one run of the assembler process.  main checks   *)
(* its arguments and calls assemble, which runs assemble_tokens on the      *)
(* tokens of the source file and writes the output file.                    *)

\* most source lines of the file given to the process
MaxMainLines == 2

MainTokenStreams == { Flatten(ls) : ls \in SeqsUpTo(LinePool, MaxMainLines) }

ProgramName == <<"g1_assembler">>

ArgvPool ==
    { <<ProgramName>>,
      <<ProgramName, SourcePath>>,
      <<ProgramName, <<"missing", ".g1">>, <<"out", ".json">> >>,
      <<ProgramName, SourcePath, <<"out", ".json">> >>,
      <<ProgramName, SourcePath, <<"out", ".g1b">> >>,
      <<ProgramName, SourcePath, <<"out", ".bin">>, <<"-d">>, DataPath>>,
      <<ProgramName, SourcePath, <<"out", ".json">>, <<"-d">>, BadHexDataPath>>,
      <<ProgramName, SourcePath, <<"out", ".g1b">>, <<"-d">>, BadHexDataPath>>,
      <<ProgramName, SourcePath, <<"out", ".json">>, <<"-d">>, TooBigDataPath>>,
      <<ProgramName, SourcePath, <<"out", ".json">>, <<"-f">> >>,
      <<ProgramName, SourcePath, <<"out", ".json">>, <<"-f">>, <<"xml">> >>,
      <<ProgramName, SourcePath, <<"out", ".json">>, <<"-x">> >>,
      <<ProgramName, SourcePath, <<"out", ".json">>, <<"-d">>, <<"nodata", ".g1d">> >> }

InitMain ==
    /\ argv \in ArgvPool
    /\ main_state = "main"
    /\ exit_code = 0
    /\ flags = << >>
    /\ out_file = << >>
    /\ tokens \in MainTokenStreams
    /\ tok_pos = 1
    /\ compiler_state = "META"
    /\ labels = << >>
    /\ raw_instructions = << >>
    /\ instruction_index = 0
    /\ output_json = [meta |-> META_VARIABLES]
    /\ asm_instructions = << >>
    /\ asm_state = "none"
    /\ asm_error = ""
    /\ asm_warnings = << >>
    /\ VmIdle /\ CodecIdle /\ DataIdle /\ RunIdle

\* main, up to a sys.exit or to the call of assemble_tokens
MainStart ==
    /\ main_state = "main"
    /\ LET m == MainUntilAssemble(argv)
       IN IF m.st = "exit"
          THEN /\ main_state' = "ended"
               /\ exit_code' = m.code
               /\ UNCHANGED <<flags, asm_state>>
          ELSE /\ main_state' = "assemble"
               /\ flags' = m.flags
               /\ asm_state' = "collect"
               /\ UNCHANGED exit_code
    /\ UNCHANGED <<argv, out_file, tokens, tok_pos, compiler_state, labels,
                   raw_instructions, instruction_index, output_json,
                   asm_instructions, asm_error, asm_warnings>>

\* error() ended assemble_tokens with sys.exit(): SystemExit is no Exception,
\* so main does not catch it, and it carries no exit code
MainSystemExit ==
    /\ main_state = "assemble"
    /\ asm_state = "exit"
    /\ main_state' = "ended"
    /\ exit_code' = 0
    /\ UNCHANGED <<argv, flags, out_file, asmVars>>

\* an exception left assemble_tokens: main catches it
MainException ==
    /\ main_state = "assemble"
    /\ asm_state \notin {"none", "collect", "resolve", "done", "exit"}
    /\ main_state' = "ended"
    /\ exit_code' = 2
    /\ UNCHANGED <<argv, flags, out_file, asmVars>>

\* assemble_tokens returned: the rest of assemble, and the return of main
MainOutput ==
    /\ main_state = "assemble"
    /\ asm_state = "done"
    /\ LET o == AssembleOutput(output_json, flags)
       IN IF o.st = "ok"
          THEN /\ out_file' = [format |-> o.format, json |-> o.json, bytes |-> o.bytes]
               /\ exit_code' = 0
          ELSE /\ exit_code' = 2
               /\ UNCHANGED out_file
    /\ main_state' = "ended"
    /\ UNCHANGED <<argv, flags, asmVars>>

NextMain ==
    \/ MainStart /\ UNCHANGED <<vmVars, codecVars, dataVars, runVars>>
    \/ MainSystemExit /\ UNCHANGED <<vmVars, codecVars, dataVars, runVars>>
    \/ MainException /\ UNCHANGED <<vmVars, codecVars, dataVars, runVars>>
    \/ MainOutput /\ UNCHANGED <<vmVars, codecVars, dataVars, runVars>>
    \/ AsmLexingError /\ UNCHANGED <<vmVars, codecVars, dataVars, runVars, mainVars>>
    \/ AsmMetaVariable /\ UNCHANGED <<vmVars, codecVars, dataVars, runVars, mainVars>>
    \/ AsmLabelName /\ UNCHANGED <<vmVars, codecVars, dataVars, runVars, mainVars>>
    \/ AsmName /\ UNCHANGED <<vmVars, codecVars, dataVars, runVars, mainVars>>
    \/ AsmValue /\ UNCHANGED <<vmVars, codecVars, dataVars, runVars, mainVars>>
    \/ AsmSkip /\ UNCHANGED <<vmVars, codecVars, dataVars, runVars, mainVars>>
    \/ AsmEndOfTokens /\ UNCHANGED <<vmVars, codecVars, dataVars, runVars, mainVars>>
    \/ AsmResolve /\ UNCHANGED <<vmVars, codecVars, dataVars, runVars, mainVars>>
    \/ AsmReturn /\ UNCHANGED <<vmVars, codecVars, dataVars, runVars, mainVars>>

SpecMain == InitMain /\ [][NextMain]_vars

-----------------------------------------------------------------------------
(* Claims about the virtual machine, checked under Spec *)

Instructions == program_data["instructions"]

ZeroMemory == [i \in 1..program_data["meta"]["memory"] |-> 0]

\* the loop of the current run has ended; start_program_thread is yet to return
RunEnded == vm_state = "running" /\ ~(program_counter < Len(Instructions))

\* a run entered at index 0 with zero-filled memory has ended
RanFromZero(is) ==
    /\ Instructions = is
    /\ RunEnded
    /\ run_index = 0
    /\ entry_memory = ZeroMemory

C1Program == << Ins("mov", <<Addr(5), IntArg(10)>>), Ins("mov", <<Addr(6), Addr(5)>>) >>

C1LiteralProgram ==
    << Ins("mov", <<IntArg(5), IntArg(10)>>), Ins("mov", <<IntArg(6), Addr(5)>>) >>

\* C1 as stated: from zero-filled memory, `mov $5 10` then `mov $6 $5`, run
\* from index 0 to the end, leaves memory[5] = 10 and memory[6] = 10.
C1_AsStated ==
    RanFromZero(C1Program) => memory[5 + 1] = 10 /\ memory[6 + 1] = 10

\* C1 amended: the Address destinations $5 and $6 are decoded to the values of
\* cells 5 and 6, which are 0, so both instructions write cell 0 and the run
\* leaves memory[5] = 0, memory[6] = 0 and memory[0] = 0; with the Literal
\* destinations 5 and 6 (`mov 5 10`, `mov 6 $5`) the run leaves memory[5] = 10
\* and memory[6] = 10.
C1_MovDestinationDecoded ==
    /\ RanFromZero(C1Program) => memory = ZeroMemory
    /\ RanFromZero(C1LiteralProgram) =>
          memory = [ZeroMemory EXCEPT ![5 + 1] = 10, ![6 + 1] = 10]

C1_Witness ==
    /\ RanFromZero(C1Program)
    /\ executed = <<0, 1>>
    /\ memory[5 + 1] = 0

\* the instruction a cycle at the current program counter executes, if any
Executes ==
    /\ vm_state = "running"
    /\ program_counter < Len(Instructions)
    /\ Fetchable(Instructions, program_counter)
    /\ ~(disable_log /\ Fetch(Instructions, program_counter).name = "log")

Current == Fetch(Instructions, program_counter)

Decoded == parse_arguments(memory, Current.args)

\* a cycle is taken in this step
Cycled == steps' = steps + 1

\* C2: a div or mod whose third operand decodes to 0 halts the run with a
\* division-by-zero error at that instruction; it changes no memory cell, and
\* once the run has halted nothing is executed any more.
C2_DivisionByZeroHalts ==
    /\ [][ ( /\ Executes
             /\ Current.name \in {"div", "mod"}
             /\ Decoded.st = "ok"
             /\ Decoded.vals[3] = 0
             /\ Cycled )
           => ( /\ vm_state' = "exit"
                /\ runtime_error' = "Division by zero."
                /\ memory' = memory
                /\ program_counter' = program_counter ) ]_vars
    /\ [][ vm_state = "exit" => UNCHANGED vmVars ]_vars

C2_Witness ==
    /\ vm_state = "exit"
    /\ runtime_error = "Division by zero."
    /\ Current.name = "mod"
    /\ Len(executed) = 2
    /\ program_counter < Len(Instructions) - 1

\* C5: executing jmp at program index i sets the program counter to the decoded
\* target when the decoded condition is not zero (also for target 0) and to
\* i + 1 when it is zero; memory and the color register are unchanged.
C5_JmpSetsProgramCounter ==
    [][ ( /\ Executes
          /\ Current.name = "jmp"
          /\ Decoded.st = "ok"
          /\ Cycled )
        => ( /\ program_counter' = IF Decoded.vals[2] # 0 THEN Decoded.vals[1]
                                   ELSE program_counter + 1
             /\ memory' = memory
             /\ color' = color
             /\ vm_state' = "running" ) ]_vars

\* a jmp at index 1 was taken to target 0, with a color set before it
C5_Witness ==
    /\ vm_state = "running"
    /\ executed = <<0, 1>>
    /\ Instructions[2].name = "jmp"
    /\ Instructions[2].args[2] # IntArg(0)
    /\ program_counter = 0
    /\ color # <<0, 0, 0>>

\* the first n cycles of the run entered at pc with memory mem take a jmp or
\* end the run with an error
RECURSIVE JmpOrErrorWithin(_, _, _)
JmpOrErrorWithin(mem, pc, n) ==
    IF n = 0 \/ ~(pc < Len(Instructions)) THEN FALSE
    ELSE LET c == Cycle(Instructions, mem, <<0, 0, 0>>, pc, disable_log)
         IN \/ c.o.st # "ok"
            \/ ~c.o.ret_none
            \/ JmpOrErrorWithin(c.o.memory, c.pc, n - 1)

\* a run was entered, and it took no jmp and met no error so far
StraightRun ==
    /\ entry_memory # << >>
    /\ vm_state \in {"running", "idle"}
    /\ ~JmpOrErrorWithin(entry_memory, run_index, Len(executed))

\* C24: a run entered at index i in which no jmp is taken and no fatal error
\* occurs executes the instructions at i, i+1, ..., len(instructions)-1 in
\* that order, each exactly once, whatever labels lie between them, and then
\* terminates.
C24_StraightRunToTheEnd ==
    /\ [] ( StraightRun =>
              /\ executed = [k \in 1..Len(executed) |-> run_index + k - 1]
              /\ run_index + Len(executed) <= Len(Instructions) )
    /\ [] ( (StraightRun /\ vm_state = "running") =>
              program_counter = run_index + Len(executed) )
    /\ [] ( (StraightRun /\ vm_state = "idle") =>
              run_index + Len(executed) = Len(Instructions) )
    /\ [][ (vm_state = "running" /\ program_counter >= Len(Instructions))
           => (vm_state' = "idle" /\ executed' = executed) ]_vars

\* a run entered at 0 executed the instructions 0 and 1, the second a jmp
\* that was not taken, and returned
C24_Witness ==
    /\ vm_state = "idle"
    /\ run_index = 0
    /\ executed = <<0, 1>>
    /\ Len(Instructions) = 2
    /\ Instructions[2] = Ins("jmp", <<IntArg(3), Addr(5)>>)
    /\ StraightRun

-----------------------------------------------------------------------------
(* Claims about one fetch-execute cycle, checked under SpecCycle *)

\* the cell an Address operand names
AddressOf(arg) == PyInt(Tail(arg.text)).val

\* the value of an operand in the memory of the current state
OperandValue(arg) ==
    IF arg.isint THEN arg.val ELSE memory[AddressOf(arg) + 1]

\* every Address operand of the current instruction names a cell
OperandsReadable ==
    \A j \in 1..Len(Current.args) :
        Current.args[j].isint \/ InBounds(memory, AddressOf(Current.args[j]))

\* operand j of the current instruction, decoded
V(j) == OperandValue(Current.args[j])

Abs(x) == IF x < 0 THEN 0 - x ELSE x

\* floor(x / y): the integer q with q*y <= x < (q+1)*y when y is positive,
\* and q*y >= x > (q+1)*y when y is negative
Floor(x, y) ==
    CHOOSE q \in (0 - Abs(x))..Abs(x) :
        IF y > 0 THEN q * y <= x /\ x < (q + 1) * y
        ELSE q * y >= x /\ x > (q + 1) * y

\* the result column of the opcode table
TableResult(name) ==
    CASE name = "mov" -> V(2)
      [] name = "movp" -> memory[V(2) + 1]
      [] name = "add" -> V(2) + V(3)
      [] name = "sub" -> V(2) - V(3)
      [] name = "mul" -> V(2) * V(3)
      [] name = "div" -> Floor(V(2), V(3))
      [] name = "mod" -> V(2) - V(3) * Floor(V(2), V(3))
      [] name = "less" -> IF V(2) < V(3) THEN 1 ELSE 0
      [] name = "equal" -> IF V(2) = V(3) THEN 1 ELSE 0
      [] name = "not" -> IF V(2) = 0 THEN 1 ELSE 0

\* the instruction has a result to write: the cells it names exist, the
\* divisor is not 0
HasResult(name) ==
    /\ OperandsReadable
    /\ InBounds(memory, V(1))
    /\ name = "movp" => InBounds(memory, V(2))
    /\ name \in {"div", "mod"} => V(3) # 0

\* the result is a value of the int32 range, which the model carries
ResultCarried(name) ==
    /\ name = "add" => ~AddLeavesInt32(V(2), V(3))
    /\ name = "sub" => ~SubLeavesInt32(V(2), V(3))
    /\ name = "mul" => ~MulLeavesInt32(V(2), V(3))
    /\ name = "div" => ~DivLeavesInt32(V(2), V(3))

\* C21: one fetch-execute cycle replaces every Address operand by the current
\* value of memory[address] and passes every Literal through unchanged, then
\* an assignment-class opcode writes exactly the table's result to memory[a],
\* a being the decoded first operand: mov v; movp memory[b]; add x+y; sub x-y;
\* mul x*y; div floor(x/y); mod x - y*floor(x/y); less and equal 1 or 0; not 1
\* iff x is 0.  The decoded operands of color and log are the color set and
\* the value printed.
C21_CycleWritesTableResult ==
    /\ [][ ( /\ Executes /\ Cycled
             /\ Current.name \in ASSIGNMENT_INSTRUCTIONS
             /\ HasResult(Current.name) /\ ResultCarried(Current.name) )
           => ( /\ vm_state' = "running"
                /\ memory'[V(1) + 1] = TableResult(Current.name) ) ]_vars
    /\ [][ ( /\ Executes /\ Cycled
             /\ Current.name \in ASSIGNMENT_INSTRUCTIONS
             /\ ~HasResult(Current.name) )
           => ( vm_state' = "exit" /\ memory' = memory ) ]_vars
    /\ [][ (Executes /\ Cycled /\ Current.name = "color" /\ OperandsReadable)
           => color' = <<V(1), V(2), V(3)>> ]_vars
    /\ [][ (Executes /\ Cycled /\ Current.name = "log" /\ OperandsReadable)
           => log_sink' = Append(log_sink, V(1)) ]_vars

\* `mod 13 $13 $14` ran on cells 13 and 14 holding -7 and 2 and wrote 1
C21_Witness ==
    /\ Instructions = << Ins("mod", <<IntArg(13), Addr(13), Addr(14)>>) >>
    /\ executed = <<0>>
    /\ entry_memory[14] = 0 - 7
    /\ entry_memory[15] = 2
    /\ memory[14] = 1

\* the loop fetches the instruction at program_counter in this step
Fetches ==
    /\ vm_state = "running"
    /\ program_counter < Len(Instructions)
    /\ Fetchable(Instructions, program_counter)

\* the step is a cycle that ran its instruction to the end
Completes == Fetches /\ Cycled /\ vm_state' = "running"

\* the current instruction is a jmp whose decoded condition is not 0
JmpTaken == Current.name = "jmp" /\ V(2) # 0

\* C22: an assignment-class opcode changes at most the cell memory[a] and
\* leaves every other cell and the color register unchanged; jmp, color,
\* point, line, rect and log leave all of memory unchanged; only color changes
\* the color register; every opcode except a taken jmp advances
\* program_counter by exactly 1.
C22_FrameOfOneInstruction ==
    /\ [][ (Completes /\ Current.name \in ASSIGNMENT_INSTRUCTIONS)
           => ( /\ Len(memory') = Len(memory)
                /\ \A i \in 1..Len(memory) :
                      i # V(1) + 1 => memory'[i] = memory[i] ) ]_vars
    /\ [][ (Completes /\ Current.name \notin ASSIGNMENT_INSTRUCTIONS)
           => memory' = memory ]_vars
    /\ [][ (Completes /\ Current.name # "color") => color' = color ]_vars
    /\ [][ (Completes /\ ~JmpTaken) => program_counter' = program_counter + 1 ]_vars

\* `color 1 2 $14` ran from index 0: the color register changed, the memory
\* did not, and the program counter is 1
C22_Witness ==
    /\ Instructions = << Ins("color", <<IntArg(1), IntArg(2), Addr(14)>>) >>
    /\ executed = <<0>>
    /\ color = <<1, 2, 2>>
    /\ memory = entry_memory
    /\ memory[14] = 0 - 7
    /\ program_counter = 1

\* C23: in every reachable state of a run, for any jmp target (negative, or
\* greater than the instruction count), program_counter is a non-negative
\* integer, an instruction is fetched only at an index in
\* [0, len(instructions)), and the run ends as soon as
\* program_counter >= len(instructions).
C23_AsStated ==
    /\ [](program_counter >= 0)
    /\ [][ (vm_state = "running" /\ Cycled /\ vm_state' # "IndexError")
           => (0 <= program_counter /\ program_counter < Len(Instructions)) ]_vars
    /\ [][ (vm_state = "running" /\ program_counter >= Len(Instructions))
           => (vm_state' = "idle" /\ ~Cycled) ]_vars

\* What holds of the program counter: an instruction is fetched at an index
\* below len(instructions) and, for a negative index, counted from the end of
\* the list; an index below -len(instructions) ends the run with IndexError;
\* the run ends as soon as program_counter >= len(instructions).
FetchAtPythonIndex ==
    /\ [][ (vm_state = "running" /\ Cycled /\ vm_state' # "IndexError")
           => ( /\ 0 - Len(Instructions) <= program_counter
                /\ program_counter < Len(Instructions) ) ]_vars
    /\ [][ (vm_state = "running" /\ Cycled /\ vm_state' = "IndexError")
           => program_counter < 0 - Len(Instructions) ]_vars
    /\ [][ (vm_state = "running" /\ program_counter >= Len(Instructions))
           => (vm_state' = "idle" /\ ~Cycled) ]_vars

\* one iteration of the loop at the current program counter, with the
\* disable-log option on and with it off
CycleLogDisabled == Cycle(Instructions, memory, color, program_counter, TRUE)
CycleLogEnabled == Cycle(Instructions, memory, color, program_counter, FALSE)

\* the two iterations end alike: the same memory, color and program counter,
\* and the same fatal error or none
SameOutcome ==
    /\ CycleLogDisabled.o.st = CycleLogEnabled.o.st
    /\ CycleLogDisabled.o.msg = CycleLogEnabled.o.msg
    /\ CycleLogDisabled.o.memory = CycleLogEnabled.o.memory
    /\ CycleLogDisabled.o.color = CycleLogEnabled.o.color
    /\ CycleLogDisabled.pc = CycleLogEnabled.pc

\* the loop is about to fetch an instruction
AtFetch ==
    /\ vm_state = "running"
    /\ program_counter < Len(Instructions)
    /\ Fetchable(Instructions, program_counter)

\* C33 (as stated): running the same program from the same memory with the
\* disable-log option on and off yields the same outcome: the same memory,
\* color and program_counter and the same fatal errors at the same
\* instructions; a `log $n` with n out of bounds is fatal in both modes.
C33_AsStated == AtFetch => SameOutcome

\* the two modes differ at a log instruction only, and there only when its
\* operand cannot be decoded: with the option on, the instruction is passed
\* over before its operands are read
LogSkippedBeforeDecoding ==
    AtFetch =>
        /\ Current.name # "log" => SameOutcome
        /\ (Current.name = "log" /\ Decoded.st = "ok" /\ Len(Current.args) >= 1)
              => SameOutcome
        /\ Current.name = "log" =>
              /\ CycleLogDisabled.o.st = "ok"
              /\ CycleLogDisabled.o.memory = memory
              /\ CycleLogDisabled.o.color = color
              /\ CycleLogDisabled.pc = program_counter + 1

-----------------------------------------------------------------------------
(* Claims about the virtual machine and its driver, checked under SpecRun *)

Meta == program_data["meta"]

\* the cell indices the current instruction names in Address operands
AddressesNamed ==
    { PyInt(Tail(Current.args[k].text)).val :
        k \in { j \in 1..Len(Current.args) : ~Current.args[j].isint } }

\* the cell indices the cycle at the current instruction reads or writes:
\* those of its Address operands and, once they are decoded, the source of a
\* movp and the destination of an assignment
CellsAccessed ==
    AddressesNamed
    \cup (IF Decoded.st = "ok" /\ Current.name = "movp" THEN {Decoded.vals[2]} ELSE {})
    \cup (IF Decoded.st = "ok" /\ Current.name \in ASSIGNMENT_INSTRUCTIONS
          THEN {Decoded.vals[1]} ELSE {})

\* C12: for every program and every meta.memory, an instruction that reads
\* or writes a cell index outside [0, meta.memory) aborts the run with a
\* fatal runtime error and performs no access.
C12_AsStated ==
    [][ ( /\ Executes
          /\ Cycled
          /\ \E index \in CellsAccessed : index < 0 \/ index >= Meta["memory"] )
        => ( /\ vm_state' = "exit"
             /\ memory' = memory ) ]_vars

\* What holds of the accesses: the same, with the length of the memory list
\* in the place of meta.memory.
AccessOutsideTheListAborts ==
    [][ ( /\ Executes
          /\ Cycled
          /\ \E index \in CellsAccessed : index < 0 \/ index >= Len(memory) )
        => ( /\ vm_state' = "exit"
             /\ memory' = memory ) ]_vars

\* C13: in every state of the virtual machine, after construction with data
\* entries, after every update of the reserved cells and after every
\* executed instruction, the memory has exactly meta.memory cells.
C13_AsStated ==
    vm_state \in {"idle", "running", "exit", "beyond_int32"} =>
        Len(memory) = Meta["memory"]

\* What holds of the length: it is meta.memory until the first update of the
\* reserved cells, and the larger of meta.memory and 13 from then on.
MemoryLength ==
    vm_state \in {"idle", "running", "exit", "beyond_int32"} =>
        Len(memory) = IF run_log = << >> \/ Meta["memory"] >= 13
                      THEN Meta["memory"] ELSE 13

\* C14: every value held in a memory cell is a signed 32-bit integer: after
\* any sequence of instructions on int32 literals and int32 memory no cell
\* holds a value outside [-2^31, 2^31-1].
C14_AsStated ==
    /\ vm_state # "beyond_int32"
    /\ \A i \in 1..Len(memory) : memory[i] >= INT32_MIN /\ memory[i] <= INT32_MAX

\* the positions of run_log that are calls of start_program_thread
ThreadCalls == { k \in 1..Len(run_log) : run_log[k].call = "start_program_thread" }

\* C15: every invocation of the fetch-execute loop (the start run and each
\* tick run) is immediately preceded by exactly one update of the reserved
\* cells, and no update happens while a run is in progress: each run
\* executes to completion before the next update.
C15_UpdateBeforeEachRun ==
    /\ [](\A k \in ThreadCalls :
             /\ k > 1
             /\ run_log[k - 1] = UpdateCall
             /\ k > 2 => run_log[k - 2].call = "start_program_thread")
    /\ [][ (vm_state = "idle" /\ vm_state' = "running") =>
              /\ run_log' = Append(run_log, ThreadCall(program_counter'))
              /\ run_log[Len(run_log)] = UpdateCall
              /\ memory' = memory ]_vars
    /\ [][ vm_state = "running" => run_log' = run_log ]_vars
    /\ [][ run_log' # run_log /\ run_log'[Len(run_log')] = UpdateCall =>
              /\ vm_state = "idle"
              /\ vm_state' = "idle"
              /\ memory' = SliceAssignFront(memory, SubSeq(memory', 1, 13)) ]_vars
    /\ [][ memory' # memory => (run_log' # run_log \/ (Executes /\ Cycled)) ]_vars

\* the start run and a tick run have been made, each after its update, and
\* the second frame has had its update
C15_Witness ==
    /\ Len(run_log) = 5
    /\ Cardinality(ThreadCalls) = 2
    /\ executed # << >>
    /\ vm_state = "idle"

\* the thread calls of the log, in order
ThreadIndexes ==
    [n \in 1..Cardinality(ThreadCalls) |->
        run_log[CHOOSE k \in ThreadCalls :
                    Cardinality({j \in ThreadCalls : j <= k}) = n].index]

HasStart == "start" \in DOMAIN program_data
HasTick == "tick" \in DOMAIN program_data

\* the tick runs: the thread calls but the start run
TickIndexes == IF HasStart /\ ThreadIndexes # << >> THEN Tail(ThreadIndexes)
               ELSE ThreadIndexes

\* C16: the start entry point is run at most once, before any tick run, and
\* only when the program has a start index; without a tick index the driver
\* makes no tick run and returns after the optional start run; with a tick
\* index every frame runs the loop from exactly that index.
C16_StartOnceThenTicks ==
    /\ [](HasStart /\ ThreadIndexes # << >> => ThreadIndexes[1] = program_data["start"])
    /\ [](\A n \in 1..Len(TickIndexes) : HasTick /\ TickIndexes[n] = program_data["tick"])
    /\ [](~HasTick =>
             /\ TickIndexes = << >>
             /\ frames = 0
             /\ run_state \in {"constructed", "start_update", "start_thread", "returned"})
    /\ [](Len(TickIndexes) = frames + (IF run_state = "frame_thread" THEN 1 ELSE 0))
    /\ [][ (~HasTick /\ StartDone /\ vm_state = "idle") => run_state' = "returned" ]_vars
    /\ [][ frames' # frames =>
              /\ frames' = frames + 1
              /\ run_index = program_data["tick"]
              /\ run_state = "frame_thread" ]_vars

\* a start run from index 0 was followed by two frames, each run from the
\* tick index 1
C16_Witness ==
    /\ HasStart /\ HasTick
    /\ program_data["start"] # program_data["tick"]
    /\ ThreadIndexes = <<0, 1, 1>>
    /\ frames = 2

\* this step is a call of update_reserved_memory by the driver
Updates ==
    /\ Len(run_log') = Len(run_log) + 1
    /\ run_log'[Len(run_log')] = UpdateCall

\* this step is the entry of a run made by the driver
EntersRun ==
    /\ Len(run_log') = Len(run_log) + 1
    /\ run_log'[Len(run_log')].call = "start_program_thread"

\* C25: a reserved-cell update by the driver sets cells 0..7 to 0/1 input
\* states, cells 8..11 to meta memory, width, height, tickrate, and cell 12 to
\* the frame delta in milliseconds (0 before the start run), and leaves every
\* cell with index >= 13 unchanged.
C25_ReservedCellUpdate ==
    [][ Updates =>
          /\ \A i \in 0..7 : memory'[i + 1] \in {0, 1}
          /\ \E inp \in DriverInputs : SubSeq(memory', 1, 8) = inp.keys
          /\ memory'[8 + 1] = Meta["memory"]
          /\ memory'[9 + 1] = Meta["width"]
          /\ memory'[10 + 1] = Meta["height"]
          /\ memory'[11 + 1] = Meta["tickrate"]
          /\ memory'[12 + 1] = (IF run_state = "constructed" THEN 0 ELSE delta_ms)
          /\ \A i \in 13..(Len(memory) - 1) : memory'[i + 1] = memory[i + 1]
          /\ \A i \in 13..(Len(memory') - 1) : i < Len(memory) ]_vars

\* the update of the second frame wrote the delta 16 to cell 12 and kept the 9
\* the data entry put in cell 14 and the 7 a run put in cell 13
C25_Witness ==
    /\ run_state = "frame_update"
    /\ frames = 1
    /\ Len(memory) = 16
    /\ memory[12 + 1] = 16
    /\ memory[13 + 1] = 7
    /\ memory[14 + 1] = 9
    /\ memory[0 + 1] = 1

\* C26: between the end of one run and the beginning of the next the VM keeps
\* its state: the memory array is the same array, every cell the reserved-cell
\* update does not write keeps the value left by the previous run, the color
\* register is kept, and only program_counter is reset, to the entry index of
\* the next run.
C26_StateKeptBetweenRuns ==
    /\ [][ (vm_state = "idle" /\ ~Updates) => memory' = memory ]_vars
    /\ [][ (vm_state = "idle" /\ Updates) =>
              \A i \in 13..(Len(memory) - 1) :
                  i < Len(memory') /\ memory'[i + 1] = memory[i + 1] ]_vars
    /\ [][ vm_state = "idle" => color' = color ]_vars
    /\ [][ (vm_state = "idle" /\ ~EntersRun) => program_counter' = program_counter ]_vars
    /\ [][ (vm_state = "idle" /\ EntersRun) =>
              /\ vm_state' = "running"
              /\ program_counter' = run_log'[Len(run_log')].index ]_vars
    /\ [][ (vm_state = "running" /\ vm_state' = "idle") =>
              /\ memory' = memory
              /\ color' = color
              /\ program_counter' = program_counter ]_vars

\* the run of the second frame is entered at the tick index with the color
\* and the cell 13 the runs before it left
C26_Witness ==
    /\ vm_state = "running"
    /\ executed = << >>
    /\ frames = 1
    /\ HasStart /\ HasTick
    /\ program_data["tick"] = 1
    /\ program_counter = 1
    /\ Len(memory) = 16
    /\ color = <<1, 2, 3>>
    /\ memory[13 + 1] = 7

\* the data entries given to the constructor
DataEntries == IF "data" \in DOMAIN program_data THEN program_data["data"] ELSE << >>

\* the entries whose span covers cell i
Covering(i) ==
    { k \in 1..Len(DataEntries) :
        DataEntries[k][1] <= i /\ i < DataEntries[k][1] + Len(DataEntries[k][2]) }

\* the value the data entries give to cell i: that of the last entry, in list
\* order, whose span covers it, and 0 when none does
DataValue(i) ==
    IF Covering(i) = {} THEN 0
    ELSE LET k == CHOOSE c \in Covering(i) : \A d \in Covering(i) : d <= c
         IN DataEntries[k][2][i - DataEntries[k][1] + 1]

EntriesFit ==
    \A k \in 1..Len(DataEntries) :
        DataEntries[k][1] + Len(DataEntries[k][2]) <= Meta["memory"]

\* C27: after successful VM construction every memory cell holds the value
\* given by the last data entry (in list order) whose span covers it, and 0 if
\* no entry covers it; a data entry with address + len(values) > meta.memory
\* makes construction fail with a fatal setup error, and no run of the program
\* starts.
C27_ConstructionLoadsData ==
    /\ [] ( (run_state = "constructed" /\ EntriesFit) =>
              /\ vm_state = "idle"
              /\ Len(memory) = Meta["memory"]
              /\ \A i \in 0..(Meta["memory"] - 1) : memory[i + 1] = DataValue(i) )
    /\ [] ( ~EntriesFit =>
              /\ vm_state = "G1PyException"
              /\ run_state = "constructed"
              /\ run_log = << >>
              /\ executed = << >> )

\* a context of 16 cells was constructed from three entries: cell 3 holds the
\* 7 of the second entry, not the 6 of the first
C27_Witness ==
    /\ run_state = "constructed"
    /\ vm_state = "idle"
    /\ Len(DataEntries) = 3
    /\ memory[2 + 1] = 5
    /\ memory[3 + 1] = 7
    /\ memory[14 + 1] = 9
    /\ memory[4 + 1] = 0

-----------------------------------------------------------------------------
(* Claims about the assembler, checked under SpecAsm *)

\* the for loop is at an instruction line: a NAME that is a mnemonic
AtInstruction ==
    /\ Collecting
    /\ tokens[tok_pos].name = "NAME"
    /\ \E n \in InstructionNames : tokens[tok_pos].value = <<n>>

\* the position of the NEWLINE that ends the line the for loop is at
LineEnd ==
    CHOOSE j \in tok_pos..Len(tokens) :
        /\ tokens[j].name = "NEWLINE"
        /\ \A k \in tok_pos..(j - 1) : tokens[k].name # "NEWLINE"

\* the operands written on that line: its tokens after the mnemonic, comments
\* not counted
OperandPositions ==
    {k \in (tok_pos + 1)..(LineEnd - 1) : tokens[k].name # "COMMENT"}

Arity(ins) == ARGUMENT_COUNT_LOOKUP[ins.name]

\* C4: every instruction of a returned program has exactly the operand count
\* of its opcode in ARGUMENT_COUNT_LOOKUP, comments on the line not counted; a
\* line with another operand count aborts assembly and no instruction is
\* emitted for it.
C4_OperandCountIsArity ==
    /\ [](asm_state = "done" =>
            \A i \in 1..Len(output_json["instructions"]) :
                Len(output_json["instructions"][i].args)
                    = Arity(output_json["instructions"][i]))
    /\ [][ (AtInstruction /\ asm_state' # asm_state)
             => Cardinality(OperandPositions)
                   # ARGUMENT_COUNT_LOOKUP[tokens[tok_pos].value[1]] ]_vars
    /\ [][ (AtInstruction /\ tok_pos' # tok_pos)
             => IF Cardinality(OperandPositions)
                      = ARGUMENT_COUNT_LOOKUP[tokens[tok_pos].value[1]]
                THEN /\ Len(raw_instructions') = Len(raw_instructions) + 1
                     /\ asm_state' = "collect"
                ELSE /\ raw_instructions' = raw_instructions
                     /\ asm_state' = "exit" ]_vars

\* a program was returned whose second instruction had a comment on its line
C4_Witness ==
    /\ asm_state = "done"
    /\ Len(output_json["instructions"]) = 2
    /\ output_json["instructions"][2].name = "jmp"
    /\ \E k \in 1..Len(tokens) : tokens[k].name = "COMMENT"

\* the NAME operands of the collected instructions that are no label
UndefinedNames(raw) == {k \in 1..Len(raw[2]) :
                           /\ raw[2][k].name = "NAME"
                           /\ raw[2][k].value \notin DOMAIN labels}

\* C6: when an instruction operand is a NAME that is no key of the label table
\* built from the whole file, assembly aborts with a fatal error and returns no
\* program; the name is never emitted as an operand.
C6_UndefinedLabelIsFatal ==
    /\ [](asm_state = "done" =>
            \A i \in 1..Len(raw_instructions) : UndefinedNames(raw_instructions[i]) = {})
    /\ [](asm_state \in {"resolve", "done"} =>
            \A i \in 1..Len(asm_instructions) :
                /\ UndefinedNames(raw_instructions[i]) = {}
                /\ \A k \in 1..Len(raw_instructions[i][2]) :
                      raw_instructions[i][2][k].name = "NAME" =>
                          asm_instructions[i].args[k]
                              = IntArg(labels[raw_instructions[i][2][k].value]))
    /\ [][ ( /\ asm_state = "resolve"
             /\ Len(asm_instructions) < Len(raw_instructions)
             /\ UndefinedNames(raw_instructions[Len(asm_instructions) + 1]) # {} )
           => ( /\ asm_state' \in {"resolve", "exit"}
                /\ asm_instructions' = asm_instructions
                /\ asm_state' = "exit" => asm_error' = "Undefined label." ) ]_vars
    /\ [][ asm_state = "exit" => asm_state' = "exit" ]_vars

\* assembly was aborted for an undefined label after an instruction that
\* refers to a defined one was resolved
C6_Witness ==
    /\ asm_state = "exit"
    /\ asm_error = "Undefined label."
    /\ Len(asm_instructions) = 1
    /\ asm_instructions[1].name = "jmp"
    /\ DOMAIN labels # {}

\* the tokens this step reads
TokensRead ==
    {tokens[k] : k \in {j \in tok_pos..(tok_pos' - 1) : j <= Len(tokens)}}

\* C9: the assembler state starts in META and moves to PROCEDURES on the first
\* label declaration; from PROCEDURES it never returns to META, and any
\* meta-variable token read while in PROCEDURES aborts assembly with a fatal
\* error.
C9_AsStated ==
    /\ (asm_state = "collect" /\ tok_pos = 1 => compiler_state = "META")
    /\ [][ (Collecting /\ tokens[tok_pos].name = "LABEL_NAME" /\ tok_pos' # tok_pos)
             => compiler_state' = "PROCEDURES" ]_vars
    /\ [][ compiler_state = "PROCEDURES" => compiler_state' = "PROCEDURES" ]_vars
    /\ [][ ( /\ compiler_state = "PROCEDURES"
             /\ Collecting
             /\ (asm_state' # asm_state \/ tok_pos' # tok_pos)
             /\ \/ \E t \in TokensRead : t.name = "META_VARIABLE"
                \/ tokens[tok_pos].name = "META_VARIABLE" )
           => asm_state' = "exit" ]_vars

\* C10: a meta-variable token that follows a label or an instruction is a fatal
\* error and does not change the meta header, also when no label has been
\* declared yet.
C10_AsStated ==
    [][ ( /\ Collecting
          /\ tokens[tok_pos].name = "META_VARIABLE"
          /\ (instruction_index > 0 \/ DOMAIN labels # {})
          /\ (asm_state' # asm_state \/ tok_pos' # tok_pos) )
        => ( /\ asm_state' = "exit"
             /\ output_json' = output_json ) ]_vars

\* the operands of the instructions of the program returned
EmittedOperands ==
    UNION { {asm_instructions[k].args[j] : j \in 1..Len(asm_instructions[k].args)} :
              k \in 1..Len(asm_instructions) }

\* a Literal: an integer
IsLiteral(arg) == arg.isint

\* an Address: the text `$` followed by decimal digits
IsAddress(arg) ==
    /\ ~arg.isint
    /\ arg.text # << >>
    /\ arg.text[1] = "$"
    /\ AllDigits(Tail(arg.text))

\* C18: every operand of every instruction of a program returned by
\* assemble_tokens is a Literal (an integer) or an Address (`$` followed by
\* decimal digits); no meta-variable or label declaration written in operand
\* position reaches the output as an operand.
C18_AsStated ==
    asm_state = "done" =>
        \A arg \in EmittedOperands : IsLiteral(arg) \/ IsAddress(arg)

\* What holds of the operands: an operand is an integer or the unchanged text
\* of a token of the stream that is neither a NUMBER nor a NAME.
OperandsAreIntegersOrTokenTexts ==
    asm_state = "done" =>
        \A arg \in EmittedOperands :
            \/ IsLiteral(arg)
            \/ \E k \in 1..Len(tokens) :
                  /\ tokens[k].name \notin {"NUMBER", "NAME", "NEWLINE", "COMMENT"}
                  /\ tokens[k].value = arg.text

\* the three tables give each opcode one id, one arity and one handler
OpcodeTable ==
    /\ Len(INSTRUCTIONS) = 16
    /\ Len(ARGUMENT_COUNTS) = 16
    /\ Len(INSTRUCTION_FUNCTIONS) = 16
    /\ DOMAIN ARGUMENT_COUNT_LOOKUP = InstructionNames
    /\ DOMAIN INSTRUCTION_IDS = InstructionNames
    /\ DOMAIN INSTRUCTION_LOOKUP = InstructionNames
    /\ \A i \in 1..16 :
          LET ins == INSTRUCTIONS[i]
          IN /\ INSTRUCTION_IDS[ins] = i - 1
             /\ ARGUMENT_COUNT_LOOKUP[ins] = ARGUMENT_COUNTS[INSTRUCTION_IDS[ins] + 1]
             /\ INSTRUCTION_LOOKUP[ins] = INSTRUCTION_FUNCTIONS[i]
             /\ OperandsRead(INSTRUCTION_LOOKUP[ins]) = ARGUMENT_COUNT_LOOKUP[ins]
             /\ \A j \in 1..16 : INSTRUCTIONS[j] = ins => j = i

\* the codec encodes the instruction: format_json and build succeed on it
Encodable(ins) ==
    /\ FormatInstruction(ins).st = "ok"
    /\ BuildG1Instruction(FormatInstruction(ins).ins).st = "ok"

\* the virtual machine finds the handler of the instruction and the handler
\* finds its arguments, in a memory where every address is a cell
Dispatchable(ins) ==
    /\ ins.name \in DOMAIN INSTRUCTION_LOOKUP
    /\ Len(ins.args) >= OperandsRead(INSTRUCTION_LOOKUP[ins.name])
    /\ \A j \in 1..Len(ins.args) :
          ins.args[j].isint \/
          (ins.args[j].text # << >> /\ PyInt(Tail(ins.args[j].text)).ok)

\* C17: the opcode table is the same in the assembler, the codec and the
\* virtual machine (arity enforced, arity of the id, mnemonic dispatched on),
\* so every instruction the assembler emits is encodable by the codec and
\* dispatchable by the virtual machine.
C17_AsStated ==
    /\ OpcodeTable
    /\ asm_state = "done" =>
          \A k \in 1..Len(asm_instructions) :
              Encodable(asm_instructions[k]) /\ Dispatchable(asm_instructions[k])

\* What holds of the emitted instructions: the table is shared, and every
\* emitted instruction has a mnemonic of the table with the operand count the
\* codec writes and the handler reads.
OpcodeTableShared ==
    /\ OpcodeTable
    /\ asm_state = "done" =>
          \A k \in 1..Len(asm_instructions) :
              LET ins == asm_instructions[k]
              IN /\ ins.name \in DOMAIN INSTRUCTION_IDS
                 /\ ins.name \in DOMAIN INSTRUCTION_LOOKUP
                 /\ Len(ins.args) = ARGUMENT_COUNTS[INSTRUCTION_IDS[ins.name] + 1]
                 /\ Len(ins.args) = OperandsRead(INSTRUCTION_LOOKUP[ins.name])

\* the keys a meta variable may name
IsMetaKey(value) ==
    \E k \in DOMAIN META_VARIABLES : Tail(value) = <<k>>

\* the for loop is at a statement, and the statement is the token t
StatementIs(t) ==
    /\ Collecting
    /\ tokens[tok_pos] = t

\* C20: assembly returns no program when the token stream contains a Number or
\* Address token outside an instruction line, a Name token in statement
\* position that is not one of the 16 mnemonics, or a meta-variable whose key
\* is not one of memory, width, height, tickrate.
C20_AsStated ==
    /\ [][ \A t \in {tokens[k] : k \in 1..Len(tokens)} :
             ( /\ StatementIs(t)
               /\ \/ t.name \in {"NUMBER", "ADDRESS"}
                  \/ t.name = "NAME" /\ ~(\E n \in InstructionNames : t.value = <<n>>) )
             => asm_state' = "exit" ]_vars
    /\ [][ asm_state = "exit" => asm_state' = "exit" ]_vars
    /\ [] ( asm_state = "done" =>
              \A k \in 1..Len(tokens) :
                  tokens[k].name = "META_VARIABLE" => IsMetaKey(tokens[k].value) )

\* What holds of the statements: a Number, an Address, a Name that is no
\* mnemonic, or a meta-variable with an unknown key, met by the for loop as a
\* statement, ends the assembly, and an assembly that ended returns nothing.
FatalStatements ==
    /\ [][ \A t \in {tokens[k] : k \in 1..Len(tokens)} :
             ( /\ StatementIs(t)
               /\ \/ t.name \in {"NUMBER", "ADDRESS"}
                  \/ t.name = "NAME" /\ ~(\E n \in InstructionNames : t.value = <<n>>)
                  \/ t.name = "META_VARIABLE" /\ ~IsMetaKey(t.value) )
             => asm_state' = "exit" ]_vars
    /\ [][ asm_state = "exit" => asm_state' = "exit" ]_vars

\* the assignment-class opcodes
AssignmentClass ==
    {"mov", "movp", "add", "sub", "mul", "div", "mod", "less", "equal", "not"}

\* the operand an argument token stands for, labels being resolved in the
\* label table
OperandOf(t) ==
    CASE t.name = "NUMBER" -> IntArg(PyInt(t.value).val)
      [] t.name = "NAME" -> IntArg(labels[t.value])
      [] OTHER -> StrArg(t.value)

\* the collected instruction the resolution pass is at
RawNext == raw_instructions[Len(asm_instructions) + 1]

\* that instruction is of the assignment class and its first operand is a
\* Literal with a value in [0, 12)
WritesReserved(raw) ==
    /\ raw[1].value[1] \in AssignmentClass
    /\ raw[2][1].name = "NUMBER"
    /\ PyInt(raw[2][1].value).ok
    /\ PyInt(raw[2][1].value).val >= 0
    /\ PyInt(raw[2][1].value).val < 12

ReservedWarning(t) ==
    [message |-> "Assignment to a reserved memory location.", token |-> t]

\* C28: for every assignment-class instruction whose first operand is a
\* Literal with value in [0, 12), the assembler emits a reserved-memory warning
\* and still emits the instruction unchanged; the resulting program is the
\* same as if no warning had been raised.
C28_ReservedWriteWarns ==
    /\ [][ ( /\ asm_state = "resolve"
             /\ Len(asm_instructions) < Len(raw_instructions)
             /\ WritesReserved(RawNext)
             /\ UndefinedNames(RawNext) = {} )
           => ( /\ asm_warnings' = Append(asm_warnings, ReservedWarning(RawNext[2][1]))
                /\ asm_instructions' =
                      Append(asm_instructions,
                             Ins(RawNext[1].value[1],
                                 [k \in 1..Len(RawNext[2]) |-> OperandOf(RawNext[2][k])]))
                /\ asm_state' = "resolve" ) ]_vars
    /\ [] ( asm_state = "done" =>
              /\ Len(output_json["instructions"]) = Len(raw_instructions)
              /\ \A i \in 1..Len(raw_instructions) :
                    output_json["instructions"][i] =
                        Ins(raw_instructions[i][1].value[1],
                            [k \in 1..Len(raw_instructions[i][2]) |->
                                OperandOf(raw_instructions[i][2][k])]) )

\* a program was returned with `mov 3 $20` in it, and the warning was given
C28_Witness ==
    /\ asm_state = "done"
    /\ \E i \in 1..Len(output_json["instructions"]) :
          output_json["instructions"][i] = Ins("mov", <<IntArg(3), Addr(20)>>)
    /\ \E w \in 1..Len(asm_warnings) :
          asm_warnings[w] = ReservedWarning(Number(3))

\* the first token of the line position k lies in
LineStartOf(k) ==
    LET ends == {j \in 1..(k - 1) : tokens[j].name = "NEWLINE"}
    IN IF ends = {} THEN 1
       ELSE 1 + (CHOOSE j \in ends : \A i \in ends : i <= j)

\* token k is the mnemonic of an instruction line: a NAME with only label
\* declarations and comments before it on its line
IsMnemonicAt(k) ==
    /\ tokens[k].name = "NAME"
    /\ \A j \in LineStartOf(k)..(k - 1) : tokens[j].name \in {"LABEL_NAME", "COMMENT"}

\* the number of instructions that precede position k in the file
InstructionsBefore(k) ==
    Cardinality({j \in 1..(k - 1) : IsMnemonicAt(j)})

\* the positions at which the label name n is declared
Declarations(n) ==
    {k \in 1..Len(tokens) :
        tokens[k].name = "LABEL_NAME" /\ tokens[k].value = n \o <<":">>}

FirstDeclaration(n) ==
    CHOOSE k \in Declarations(n) : \A j \in Declarations(n) : k <= j

\* the label names declared in the file
DeclaredNames ==
    {SubSeq(tokens[k].value, 1, Len(tokens[k].value) - 1) :
        k \in {j \in 1..Len(tokens) : tokens[j].name = "LABEL_NAME"}}

\* the for loop is at a declaration of a label that is in the table
AtDuplicate ==
    /\ Collecting
    /\ tokens[tok_pos].name = "LABEL_NAME"
    /\ SubSeq(tokens[tok_pos].value, 1, Len(tokens[tok_pos].value) - 1) \in DOMAIN labels

\* C29: when a label name is declared more than once, the label table keeps
\* the instruction index of the first declaration for the rest of assembly
\* (also for start and tick), every reference to the name resolves to that
\* index, and assembly still succeeds.
C29_FirstDeclarationKept ==
    /\ [][ (AtDuplicate /\ tok_pos' # tok_pos)
           => ( /\ labels' = labels
                /\ asm_state' = "collect"
                /\ Len(asm_warnings') = Len(asm_warnings) + 1 ) ]_vars
    /\ [][ \A n \in DOMAIN labels :
              n \in DOMAIN labels' /\ labels'[n] = labels[n] ]_vars
    /\ [] ( asm_state = "done" =>
              \A n \in DeclaredNames :
                  Cardinality(Declarations(n)) > 1 =>
                      /\ labels[n] = InstructionsBefore(FirstDeclaration(n))
                      /\ \A i \in 1..Len(raw_instructions) :
                            \A k \in 1..Len(raw_instructions[i][2]) :
                                raw_instructions[i][2][k] = Tok("NAME", n) =>
                                    output_json["instructions"][i].args[k]
                                        = IntArg(InstructionsBefore(FirstDeclaration(n)))
                      /\ n = <<"tick">> =>
                            output_json["tick"] = InstructionsBefore(FirstDeclaration(n))
                      /\ n = <<"start">> =>
                            output_json["start"] = InstructionsBefore(FirstDeclaration(n)) )

\* a program was returned from `tick:`, `jmp tick 1`, `tick:`: the reference
\* and the tick field are the index 0 of the first declaration
C29_Witness ==
    /\ asm_state = "done"
    /\ Cardinality(Declarations(<<"tick">>)) = 2
    /\ "tick" \in DOMAIN output_json
    /\ labels[<<"tick">>] = 0
    /\ output_json["tick"] = 0
    /\ output_json["instructions"] = << Ins("jmp", <<IntArg(0), IntArg(1)>>) >>
    /\ tokens[Len(tokens) - 1] = LabelName("tick")

\* C30: the value of a label is the number of instructions that precede its
\* declaration in the file (a label after the last instruction has value
\* len(instructions)); a Name operand is emitted as a Literal with that value
\* whether the label is declared before or after the referencing instruction;
\* the program's start/tick fields equal the values of the labels named
\* start/tick.
C30_LabelValues ==
    /\ [] ( asm_state \in {"resolve", "done"} =>
              /\ DOMAIN labels = DeclaredNames
              /\ \A n \in DeclaredNames :
                    /\ labels[n] = InstructionsBefore(FirstDeclaration(n))
                    /\ labels[n] <= Len(raw_instructions) )
    /\ [] ( asm_state = "done" =>
              /\ \A i \in 1..Len(raw_instructions) :
                    \A k \in 1..Len(raw_instructions[i][2]) :
                        raw_instructions[i][2][k].name = "NAME" =>
                            /\ raw_instructions[i][2][k].value \in DeclaredNames
                            /\ output_json["instructions"][i].args[k] =
                                  IntArg(InstructionsBefore(
                                      FirstDeclaration(raw_instructions[i][2][k].value)))
              /\ "start" \in DOMAIN output_json <=> <<"start">> \in DeclaredNames
              /\ "tick" \in DOMAIN output_json <=> <<"tick">> \in DeclaredNames
              /\ <<"start">> \in DeclaredNames =>
                    output_json["start"] = InstructionsBefore(FirstDeclaration(<<"start">>))
              /\ <<"tick">> \in DeclaredNames =>
                    output_json["tick"] = InstructionsBefore(FirstDeclaration(<<"tick">>)) )

\* a program was returned from `start:`, `jmp tick 1`, `tick:`: the reference
\* comes before the declaration, and tick, declared after the last
\* instruction, has the value len(instructions)
C30_Witness ==
    /\ asm_state = "done"
    /\ Len(tokens) >= 2
    /\ "start" \in DOMAIN output_json
    /\ "tick" \in DOMAIN output_json
    /\ tokens[1] = LabelName("start")
    /\ tokens[Len(tokens) - 1] = LabelName("tick")
    /\ Cardinality(Declarations(<<"tick">>)) = 1
    /\ output_json["instructions"] = << Ins("jmp", <<IntArg(1), IntArg(1)>>) >>
    /\ output_json["start"] = 0
    /\ output_json["tick"] = 1

-----------------------------------------------------------------------------
(* Claims about the binary codec, checked under SpecCodec *)

\* an operand as the value it denotes: an Address written in decimal
\* without leading zeros
Canonical(a) ==
    IF a.isint THEN a ELSE StrArg(<<"$">> \o PyStr(PyInt(Tail(a.text)).val))

\* a program without its debug-only fields (the source text and the source
\* line of each instruction), each operand taken as the value it denotes
StripDebug(p) ==
    ("instructions" :>
        [k \in 1..Len(p["instructions"]) |->
            Ins(p["instructions"][k].name,
                [j \in 1..Len(p["instructions"][k].args) |->
                    Canonical(p["instructions"][k].args[j])])])
    @@ Del(p, "source")

\* the bytes of the tick and start fields of the file
TickBytes == SubSeq(file_content, 13, 16)
StartBytes == SubSeq(file_content, 17, 20)

\* C3: for every valid program p, with data absent or any list of entries, the
\* empty list included, parse_to_program_data(build(format_json(p))) equals p
\* once the debug-only fields are ignored; an absent start or tick is written
\* as -1 and read back as absent.
C3_AsStated ==
    /\ codec_state \in {"program", "formatted", "built", "parsed"}
    /\ codec_state \in {"built", "parsed"} =>
          /\ "tick" \notin DOMAIN codec_in => TickBytes = <<255, 255, 255, 255>>
          /\ "start" \notin DOMAIN codec_in => StartBytes = <<255, 255, 255, 255>>
    /\ codec_state = "parsed" =>
          /\ codec_out = StripDebug(codec_in)
          /\ "tick" \in DOMAIN codec_out <=> "tick" \in DOMAIN codec_in
          /\ "start" \in DOMAIN codec_out <=> "start" \in DOMAIN codec_in

\* What the round trip does return: the program without its debug-only
\* fields, with an empty data list dropped and with the key data_entry_count
\* added when the data list is not empty.
Normalised(p) ==
    LET q == StripDebug(p)
    IN IF "data" \notin DOMAIN q THEN q
       ELSE IF q["data"] = <<>> THEN Del(q, "data")
       ELSE ("data_entry_count" :> Len(q["data"])) @@ q

RoundTripNormalised ==
    /\ codec_state \in {"program", "formatted", "built", "parsed"}
    /\ codec_state \in {"built", "parsed"} =>
          /\ "tick" \notin DOMAIN codec_in => TickBytes = <<255, 255, 255, 255>>
          /\ "start" \notin DOMAIN codec_in => StartBytes = <<255, 255, 255, 255>>
    /\ codec_state = "parsed" => codec_out = Normalised(codec_in)

-----------------------------------------------------------------------------
(* Claims about decoding, checked under SpecRunFile *)

\* the bytes build wrote
Written == Build(formatted_json).bytes

\* the first two bytes of the buffer are not `g1`
SignatureMismatch == ~StartsWithSignature(file_content)

\* the buffer ends before the fields its counts announce: it is a proper
\* prefix of the bytes written, the signature left aside
Truncated ==
    /\ Len(file_content) < Len(Written)
    /\ \A i \in (Len(SIGNATURE) + 1)..Len(file_content) : file_content[i] = Written[i]

\* the decoding of the buffer has ended
DecodingEnded == codec_state \in {"parsed", "run", "ConstError", "StreamError",
                                  "ValueError", "IndexError"}

\* C19: decoding a buffer whose first two bytes are not `g1`, or a buffer that
\* ends before all fields announced by its counts have been read, ends in a
\* fatal format error (ConstError or StreamError of the parser, or the
\* ValueError of run_file's other branch) and yields no program.
C19_DamagedBufferIsFatal ==
    (DecodingEnded /\ (SignatureMismatch \/ Truncated)) =>
        /\ codec_state \in {"ConstError", "StreamError", "ValueError"}
        /\ codec_out = << >>
        /\ codec_state = "StreamError" =>
              Truncated /\ (Len(file_content) < Len(SIGNATURE) \/ ~SignatureMismatch)
        /\ codec_state = "ConstError" => SignatureMismatch

\* a file with its signature, cut inside its instructions or its data, was
\* refused with a StreamError
C19_Witness ==
    /\ codec_state = "StreamError"
    /\ codec_out = << >>
    /\ StartsWithSignature(file_content)
    /\ Truncated
    /\ Len(file_content) >= 24

-----------------------------------------------------------------------------
(* Claims about the data loader, checked under SpecData *)

DataLines == SplitLines(data_entries)

\* the type letter of line k of the file (1-indexed)
TypeOfLine(k) == DATA_LINE_REGEX(DataLines[k]).data_type

\* entry k of the list is the entry of line k of the file
EntryAddress(k) == parsed_data[k][1]
EntryValues(k) == parsed_data[k][2]

Fits(k) == EntryAddress(k) + Len(EntryValues(k)) <= memory_size

\* C7 (as stated): every entry of the returned list, of every type b, s, f
\* and F, satisfies address + len(values) <= memory_size.
C7_AsStated ==
    data_state = "returned" => \A k \in 1..Len(parsed_data) : Fits(k)

\* C7 (amended): every entry of type b, s or f of the list satisfies
\* address + len(values) <= memory_size, and the line that would break this
\* ends the load with the capacity error; an entry of type F is appended with
\* the bytes of its file whatever its size.
C7_CheckedEntriesFit ==
    /\ Len(parsed_data) = line_number
    /\ \A k \in 1..Len(parsed_data) :
          /\ TypeOfLine(k) # "F" => Fits(k)
          /\ TypeOfLine(k) = "F" =>
                EntryValues(k) = Files[DATA_LINE_REGEX(DataLines[k]).data].bytes
    /\ data_state = "None" =>
          LET m == DATA_LINE_REGEX(DataLines[line_number + 1])
              wellFormed == /\ m.matched
                            /\ m.data_type = "b" => HEX_REGEX(m.data)
                            /\ m.data_type \in {"f", "F"} => IsFile(m.data)
          IN /\ wellFormed <=> data_error = CapacityMessage
             /\ wellFormed => m.data_type \in {"b", "s", "f"}

\* an entry of 20 values at 100 was accepted against 128 cells, and an entry
\* of type F of 10 values at 120 as well
C7_Witness ==
    /\ data_state = "returned"
    /\ memory_size = 128
    /\ \E k \in 1..Len(parsed_data) :
          TypeOfLine(k) = "f" /\ EntryAddress(k) = 100 /\ Len(EntryValues(k)) = 20
    /\ \E k \in 1..Len(parsed_data) :
          TypeOfLine(k) = "F" /\ EntryAddress(k) = 120 /\ Len(EntryValues(k)) = 10

\* the cells of entry k
Cells(k) == EntryAddress(k)..(EntryAddress(k) + Len(EntryValues(k)) - 1)

OverlappingPairs ==
    { p \in (1..Len(parsed_data)) \X (1..Len(parsed_data)) :
        p[1] < p[2] /\ Cells(p[1]) \cap Cells(p[2]) # {} }

SpanOf(k) == <<EntryAddress(k), EntryAddress(k) + Len(EntryValues(k)) - 1>>

\* the warnings printed for the spans of entries k and l
WarningsFor(k, l) ==
    { i \in 1..Len(data_warnings) :
        \/ data_warnings[i] = <<SpanOf(k), SpanOf(l)>>
        \/ data_warnings[i] = <<SpanOf(l), SpanOf(k)>> }

\* every line of the file gave its entry, in the order of the file
AllEntriesInFileOrder ==
    /\ Len(parsed_data) = Len(DataLines)
    /\ \A k \in 1..Len(parsed_data) :
          EntryAddress(k) = PyInt(DATA_LINE_REGEX(DataLines[k]).address_str).val

\* C8: parse_data prints an overlap warning for a pair of accepted entries
\* exactly when their spans [address, address+len-1] share at least one cell,
\* and an overlap never drops an entry or fails the load: all entries are
\* returned in file order.
C8_AsStated ==
    data_state = "returned" =>
        /\ Len(data_warnings) = Cardinality(OverlappingPairs)
        /\ \A k, l \in 1..Len(parsed_data) :
              k < l => (WarningsFor(k, l) # {} <=> <<k, l>> \in OverlappingPairs)
        /\ AllEntriesInFileOrder

\* What holds of the report: the same, over the files whose entries all have
\* at least one value.
OverlapWarningsOfNonEmptyEntries ==
    data_state = "returned" =>
        /\ (\A k \in 1..Len(parsed_data) : EntryValues(k) # << >>) =>
              /\ Len(data_warnings) = Cardinality(OverlappingPairs)
              /\ \A k, l \in 1..Len(parsed_data) :
                    k < l => (WarningsFor(k, l) # {} <=> <<k, l>> \in OverlappingPairs)
        /\ AllEntriesInFileOrder

\* the line the load stopped at
FailedLine == DataLines[line_number + 1]

SyntaxMessage == "Expected [address] [f|F|b|s] [data] syntax for data entry."

\* C32 (as stated): the data grammar applies to non-empty lines only: an
\* empty line of the data file (for example the one produced by a trailing
\* newline) is skipped and does not fail the load, and the entries of the
\* other lines are returned.
C32_AsStated ==
    /\ data_state = "None" => FailedLine # << >>
    /\ data_state = "returned" =>
          Len(parsed_data) =
              Cardinality({k \in 1..Len(DataLines) : DataLines[k] # << >>})

\* What holds of an empty line: the pattern is matched against every line of
\* split('\n'), the empty ones included, and an empty line ends the load with
\* the syntax error; a file that is returned has no empty line.
EmptyLineFailsTheLoad ==
    /\ (data_state = "lines" /\ line_number < Len(DataLines)
          /\ DataLines[line_number + 1] = << >>)
          => ~ParseDataLine(parsed_data, memory_size, << >>).ok
    /\ (data_state = "None" /\ FailedLine = << >>) => data_error = SyntaxMessage
    /\ data_state = "returned" => \A k \in 1..Len(DataLines) : DataLines[k] # << >>

-----------------------------------------------------------------------------
(* Claims about the assembler process, checked under SpecMain *)

FatalDiagnostics ==
    { "Unrecognized token.", "Expected other argument count.",
      "Unrecognized instruction.", "Unrecognized meta variable.",
      "Found meta variable outside file header.",
      "Value outside of instruction.", "Undefined label." }

\* main ended for an error in the flags
FlagError ==
    /\ Len(argv) > 3
    /\ MainIsFile(argv[2])
    /\ parse_cli_flags(SubSeq(argv, 4, Len(argv))).st # "ok"

\* C11: the assembler process, given its input and output file, ends with
\* exit code 0 only when assembly succeeded and the output was written; every
\* fatal diagnostic and every flag-parsing error ends it with a nonzero exit
\* code.
C11_AsStated ==
    main_state = "ended" =>
        /\ (Len(argv) > 2 /\ exit_code = 0) => (asm_state = "done" /\ out_file # << >>)
        /\ (asm_state = "exit" /\ asm_error \in FatalDiagnostics) => exit_code # 0
        /\ FlagError => exit_code # 0

\* What holds of the exit code: a flag-parsing error ends the process with 2,
\* a missing input or output argument with 1, and exit code 0 is that of a
\* written output file, of the usage message or of a fatal diagnostic.
ExitCodes ==
    main_state = "ended" =>
        /\ FlagError => exit_code = 2
        /\ exit_code = 0 =>
              \/ asm_state = "done" /\ out_file # << >>
              \/ Len(argv) = 1
              \/ asm_state = "exit" /\ asm_error \in FatalDiagnostics
        /\ asm_state = "exit" => exit_code = 0

\* assemble was given a data file, and parse_data returned None for it
DataLoadFailed ==
    /\ main_state = "ended"
    /\ asm_state = "done"
    /\ "data" \in DOMAIN flags
    /\ ~parse_data(ReadDataFile(flags["data"]), output_json["meta"]["memory"]).ok

\* C31 (as stated): if any line of the data file is malformed (no grammar
\* match, bad hex, missing file, or an over-capacity entry), the data-load
\* step aborts with no partial result, none of the earlier valid entries is
\* returned, and the assembler does not go on to write an output program.
C31_AsStated ==
    DataLoadFailed => (out_file = << >> /\ exit_code # 0)

\* What holds after a failed data load: assemble stores the None it was
\* given as the data of the program and goes on.  In the json format the
\* program is written, with null for its data and none of the entries of
\* the earlier lines, and the process ends with exit code 0; in the g1b
\* format the conversion raises and nothing is written.
FailedLoadStoredAsNone ==
    DataLoadFailed =>
        /\ flags["format"] = "json" =>
              /\ out_file # << >>
              /\ out_file.json["data"] = None
              /\ out_file.json["instructions"] = output_json["instructions"]
              /\ exit_code = 0
        /\ flags["format"] = "g1b" => (out_file = << >> /\ exit_code = 2)

=============================================================================
